---- MODULE Spec2Model ----
(***************************************************************************)
(* TradeKernel core: the priority scheduler and task model                 *)
(* (kernel/proc/scheduler.c, Old-Version/kernel/proc/process.c), the heap  *)
(* allocator (Old-Version/kernel/mm/memory.c), the message queues and the  *)
(* single-producer/single-consumer ring (Old-Version/kernel/proc/ipc.c).   *)
(*                                                                         *)
(* Pointers to process-table entries are slot indices; NULL is -1.         *)
(* uint32_t counters are kept as their signed 32-bit representative, so    *)
(* 0 - 1 is -1 (0xFFFFFFFF) and the unsigned test "x > 0" is "x /= 0".     *)
(***************************************************************************)
EXTENDS Integers, Sequences, FiniteSets, TLC

\* ---------------------------------------------------------------- bounds
\* process.h:119 has 256 table slots; the model keeps this many.
MAX_PROCESSES == 4
\* process.h:121 has a slice of 10 ticks; the model shortens it.
DEFAULT_TIME_SLICE == 2
\* number of scheduler/process operations explored from process_init
MaxSchedOps == 6

\* ------------------------------------------------------- program constants
NULL == -1

PROCESS_NEW == 0
PROCESS_READY == 1
PROCESS_RUNNING == 2
PROCESS_BLOCKED == 3
PROCESS_SLEEPING == 4
PROCESS_ZOMBIE == 5
PROCESS_TERMINATED == 6

PRIORITY_REALTIME == 0
PRIORITY_HIGH == 1
PRIORITY_NORMAL == 2
PRIORITY_LOW == 3
PRIORITY_IDLE == 4

SCHED_FIFO == 0
SCHED_RR == 1

IDLE_PROCESS_PID == 0
SIGKILL == 9

\* queue designators: 0..4 are ready_queues[i]
QBLOCKED == 5
QTERMINATED == 6

Slots == 0 .. (MAX_PROCESSES - 1)
Priorities == PRIORITY_REALTIME .. PRIORITY_IDLE
\* priorities the environment gives to the tasks it creates
TaskPriorities == {PRIORITY_HIGH, PRIORITY_NORMAL}
ExitCodes == {0, 1}

VARIABLES
    \* process.c globals
    process_table, process_table_used, next_pid, current_process, idle_process,
    ready_queues, blocked_queue, terminated_queue, proc_stats,
    \* history: the last operation and its arguments, processes exited and not
    \* yet recreated, number of operations so far
    last_op, exited, sched_ops,
    \* history: for each task the number of the operation that put it on the
    \* ready queue it is waiting on (0 when it is not waiting on one), the same
    \* before the last operation, and for each timer tick so far the task it was
    \* charged to and the tasks that were Ready or Running when it came
    ready_since, ready_before, tick_log,
    \* history: for each task Blocked by sys_wait the child it waits for
    waiting_for,
    \* memory.c globals
    heap_mem, heap_start, heap_stats, allocations, next_alloc_id,
    \* history: the heap operations so far with their results, and the block
    \* list as it was before the last one
    heap_log, heap_before, heap_stats_before,
    \* history: the allocator's globals as they were before the last kmalloc or
    \* kfree
    heap_prev,
    \* the memory_pool_t the environment holds (NoPool before one is created)
    pool,
    \* history: the pointers pool_alloc returned that pool_free has not been
    \* given since, in the order returned; all pointers pool_alloc ever returned;
    \* the last pool operation; the number of pool operations so far
    pool_out, pool_returned, pool_last, pool_ops,
    \* ipc.c globals
    message_queues, next_msgq_id,
    \* history: the sends accepted and the receives that returned a message, in
    \* order, and the last message operation
    msg_sent, msg_rcvd, msg_last,
    \* two tasks inside msgsnd / msgrcv on one queue: each task's position,
    \* arguments and locals; history: the table when the first call began
    race_task, race_start,
    \* a lockfree_ringbuf_t, its producer's and its consumer's position and
    \* locals
    rb, p_pc, p_head, p_tail, p_next_tail, p_data, c_pc, c_head, c_tail, c_data,
    \* history: the elements whose push returned 0 and whose pop returned 0
    pushed, popped

sched_vars == <<process_table, process_table_used, next_pid, current_process,
                idle_process, ready_queues, blocked_queue, terminated_queue,
                proc_stats, last_op, exited, sched_ops, ready_since, ready_before,
                tick_log, waiting_for>>

heap_vars == <<heap_mem, heap_start, heap_stats, allocations, next_alloc_id,
               heap_log, heap_before, heap_stats_before, heap_prev>>

msg_vars == <<message_queues, next_msgq_id, msg_sent, msg_rcvd, msg_last,
              race_task, race_start>>

ring_vars == <<rb, p_pc, p_head, p_tail, p_next_tail, p_data, c_pc, c_head, c_tail,
               c_data, pushed, popped>>

pool_vars == <<pool, pool_out, pool_returned, pool_last, pool_ops>>

vars == <<sched_vars, heap_vars, pool_vars, msg_vars, ring_vars>>

\* process.c: the clock get_current_time_ms returns; system_tick, the one
\* function that advances it, has no caller
system_time_ms == 0

\* uint32_t ++ and -- on the signed representative
Inc32(x) == x + 1
Dec32(x) == x - 1

\* The one element of a singleton set.  "Pick({ e : x \in {v} })" is e with x
\* bound to the value of v: the C statement "x = v;" followed by e.
Pick(S) == CHOOSE r \in S : TRUE

\* ------------------------------------------------------------ the PCB
\* memset(process, 0, sizeof(process_t))
ZeroProcess ==
    [pid |-> 0, ppid |-> 0, state |-> PROCESS_NEW, priority |-> PRIORITY_REALTIME,
     policy |-> SCHED_FIFO, cpu_time |-> 0, time_slice |-> 0, remaining_slice |-> 0,
     parent |-> NULL, children |-> NULL, sibling_next |-> NULL, sibling_prev |-> NULL,
     next |-> NULL, prev |-> NULL, exit_code |-> 0, context_switches |-> 0,
     last_run_time |-> 0, has_stack |-> FALSE]

\* queue_init
EmptyQueue == [head |-> NULL, tail |-> NULL, count |-> 0]

\* The scheduler's globals as one value, threaded through the C functions.
SchedState ==
    [pt |-> process_table, used |-> process_table_used, npid |-> next_pid,
     cur |-> current_process, idle |-> idle_process, rq |-> ready_queues,
     bq |-> blocked_queue, tq |-> terminated_queue, stats |-> proc_stats]

GetQ(s, qi) == IF qi = QBLOCKED THEN s.bq
               ELSE IF qi = QTERMINATED THEN s.tq
               ELSE s.rq[qi]

SetQ(s, qi, Q) == IF qi = QBLOCKED THEN [s EXCEPT !.bq = Q]
                  ELSE IF qi = QTERMINATED THEN [s EXCEPT !.tq = Q]
                  ELSE [s EXCEPT !.rq[qi] = Q]

\* ------------------------------------------------- scheduler.c: queues
queue_add_tail(s0, qi, p) ==
    IF p = NULL THEN s0
    ELSE Pick({
        LET Q0 == GetQ(s, qi)
            \* process->next = NULL; process->prev = queue->tail;
            pt1 == [s.pt EXCEPT ![p].next = NULL, ![p].prev = Q0.tail]
            \* if (queue->tail) queue->tail->next = process; else queue->head = process;
            pt2 == IF Q0.tail /= NULL THEN [pt1 EXCEPT ![Q0.tail].next = p] ELSE pt1
            Q1 == IF Q0.tail /= NULL THEN Q0 ELSE [Q0 EXCEPT !.head = p]
            \* queue->tail = process; queue->count++;
            Q2 == [Q1 EXCEPT !.tail = p, !.count = Inc32(@)]
        IN SetQ([s EXCEPT !.pt = pt2], qi, Q2)
        : s \in {s0} })

\* The process returned is GetQ(s0, qi).head (NULL when the queue has no head).
queue_remove_head(s0, qi) ==
    Pick({
        LET Q0 == GetQ(s, qi)
            p == Q0.head
        IN IF p = NULL THEN s
           ELSE LET \* queue->head = process->next;
                    Q1 == [Q0 EXCEPT !.head = s.pt[p].next]
                    \* if (queue->head) queue->head->prev = NULL; else queue->tail = NULL;
                    pt1 == IF Q1.head /= NULL THEN [s.pt EXCEPT ![Q1.head].prev = NULL]
                           ELSE s.pt
                    Q2 == IF Q1.head /= NULL THEN Q1 ELSE [Q1 EXCEPT !.tail = NULL]
                    \* process->next = NULL; process->prev = NULL; queue->count--;
                    pt2 == [pt1 EXCEPT ![p].next = NULL, ![p].prev = NULL]
                    Q3 == [Q2 EXCEPT !.count = Dec32(@)]
                IN SetQ([s EXCEPT !.pt = pt2], qi, Q3)
        : s \in {s0} })

queue_remove(s0, qi, p) ==
    IF p = NULL THEN s0
    ELSE Pick({
        LET Q0 == GetQ(s, qi)
            pt0 == s.pt
        IN Pick({
            \* if (process->prev) process->prev->next = process->next;
            \* else queue->head = process->next;
            LET pt1 == a.pt
                Q1 == a.Q
            IN Pick({
                \* if (process->next) process->next->prev = process->prev;
                \* else queue->tail = process->prev;
                \* process->next = NULL; process->prev = NULL; queue->count--;
                SetQ([s EXCEPT !.pt = [b.pt EXCEPT ![p].next = NULL, ![p].prev = NULL]],
                     qi, [b.Q EXCEPT !.count = Dec32(@)])
                : b \in {IF pt1[p].next /= NULL
                         THEN [pt |-> [pt1 EXCEPT ![pt1[p].next].prev = pt1[p].prev], Q |-> Q1]
                         ELSE [pt |-> pt1, Q |-> [Q1 EXCEPT !.tail = pt1[p].prev]]} })
            : a \in {IF pt0[p].prev /= NULL
                     THEN [pt |-> [pt0 EXCEPT ![pt0[p].prev].next = pt0[p].next], Q |-> Q0]
                     ELSE [pt |-> pt0, Q |-> [Q0 EXCEPT !.head = pt0[p].next]]} })
        : s \in {s0} })

\* ---------------------------------------------- scheduler.c: ready queues
scheduler_add_process(s0, p) ==
    Pick({
        IF p = NULL \/ s.pt[p].state /= PROCESS_READY THEN s
        ELSE \* if (process->policy == SCHED_RR) remaining_slice = time_slice;
             queue_add_tail(IF s.pt[p].policy = SCHED_RR
                            THEN [s EXCEPT !.pt[p].remaining_slice = s.pt[p].time_slice]
                            ELSE s,
                            s.pt[p].priority, p)
        : s \in {s0} })

\* for (i = 0; i < 5; i++) queue_remove(&ready_queues[i], process);
RECURSIVE remove_from_ready(_, _, _)
remove_from_ready(s0, p, i) ==
    IF i > PRIORITY_IDLE THEN s0
    ELSE remove_from_ready(queue_remove(s0, i, p), p, i + 1)

scheduler_remove_process(s0, p) ==
    IF p = NULL THEN s0 ELSE remove_from_ready(s0, p, PRIORITY_REALTIME)

\* [next |-> the process picked, s |-> the state after the pick]
RECURSIVE pick_from(_, _)
pick_from(s0, priority) ==
    Pick({
        IF priority > PRIORITY_IDLE THEN [next |-> s.idle, s |-> s]
        ELSE IF s.rq[priority].count /= 0 /\ s.rq[priority].head /= NULL
             THEN [next |-> s.rq[priority].head, s |-> queue_remove_head(s, priority)]
             ELSE pick_from(s, priority + 1)
        : s \in {s0} })

scheduler_pick_next(s0) == pick_from(s0, PRIORITY_REALTIME)

\* ------------------------------------------------ process.c: state change
process_set_state(s0, p, new_state) ==
    Pick({
        IF p = NULL \/ s.pt[p].state = new_state THEN s
        ELSE LET old_state == s.pt[p].state
                 s1 == [s EXCEPT !.pt[p].state = new_state]
                 s2 == IF old_state = PROCESS_RUNNING
                       THEN [s1 EXCEPT !.stats.running_processes = Dec32(@)]
                       ELSE IF old_state = PROCESS_BLOCKED
                       THEN [s1 EXCEPT !.stats.blocked_processes = Dec32(@)]
                       ELSE s1
             IN IF new_state = PROCESS_RUNNING
                THEN [s2 EXCEPT !.stats.running_processes = Inc32(@)]
                ELSE IF new_state = PROCESS_BLOCKED
                THEN [s2 EXCEPT !.stats.blocked_processes = Inc32(@)]
                ELSE IF new_state = PROCESS_READY THEN scheduler_add_process(s2, p)
                ELSE IF new_state = PROCESS_TERMINATED
                THEN queue_add_tail(s2, QTERMINATED, p)
                ELSE s2
        : s \in {s0} })

\* ------------------------------------------- scheduler.c: yield and preempt
\* the switch both functions perform once a next process is chosen
switch_to(s0, old, next) ==
    Pick({
        \* current_process = next_process;
        \* next_process->last_run_time = get_current_time_ms();
        \* proc_stats.context_switches++;
        \* old_process->context_switches++; next_process->context_switches++;
        LET s2 == [s EXCEPT !.cur = next, !.pt[next].last_run_time = system_time_ms,
                            !.stats.context_switches = Inc32(@)]
            s3 == [s2 EXCEPT !.pt[old].context_switches = Inc32(@)]
        IN [s3 EXCEPT !.pt[next].context_switches = Inc32(@)]
        : s \in {process_set_state(s0, next, PROCESS_RUNNING)} })

scheduler_yield(s0) ==
    Pick({
        IF s.cur = NULL THEN s
        ELSE Pick({
            \* if (next_process && next_process != old_process)
            IF pk.next /= NULL /\ pk.next /= s.cur
            THEN switch_to(pk.s, s.cur, pk.next) ELSE pk.s
            : pk \in {scheduler_pick_next(
                        IF s.pt[s.cur].state = PROCESS_RUNNING
                        THEN process_set_state(s, s.cur, PROCESS_READY) ELSE s)} })
        : s \in {s0} })

scheduler_preempt(s0) ==
    Pick({
        IF s.cur = NULL THEN s
        ELSE Pick({
            \* if (next_process)
            IF pk.next /= NULL THEN switch_to(pk.s, s.cur, pk.next) ELSE pk.s
            : pk \in {scheduler_pick_next(
                        IF s.pt[s.cur].state = PROCESS_RUNNING
                        THEN process_set_state(s, s.cur, PROCESS_READY) ELSE s)} })
        : s \in {s0} })

\* for (i = 0; i < priority; i++) if (ready_queues[i].count > 0) ...
higher_priority_ready(s, priority) ==
    \E i \in Priorities : i < priority /\ s.rq[i].count /= 0

\* scheduler_tick with the test of remaining_slice left out: a task is
\* preempted by a higher priority only
scheduler_tick_never_expiring(s0) ==
    Pick({
        IF s.cur = NULL THEN s
        ELSE Pick({
            IF higher_priority_ready(s1, s1.pt[s1.cur].priority)
            THEN scheduler_preempt(s1) ELSE s1
            : s1 \in {[s EXCEPT !.pt[s.cur].cpu_time = Inc32(@)]} })
        : s \in {s0} })

scheduler_tick(s0) ==
    Pick({
        IF s.cur = NULL THEN s
        ELSE Pick({
            LET c == s2.cur
                should_preempt ==
                    IF s2.pt[c].policy = SCHED_FIFO
                    THEN higher_priority_ready(s2, s2.pt[c].priority)
                    ELSE IF s2.pt[c].policy = SCHED_RR
                    THEN s2.pt[c].remaining_slice = 0
                         \/ higher_priority_ready(s2, s2.pt[c].priority)
                    ELSE FALSE
            IN IF should_preempt THEN scheduler_preempt(s2) ELSE s2
            : s2 \in {LET c == s.cur
                          s1 == [s EXCEPT !.pt[c].cpu_time = Inc32(@)]
                      IN IF s1.pt[c].policy = SCHED_RR /\ s1.pt[c].remaining_slice /= 0
                         THEN [s1 EXCEPT !.pt[c].remaining_slice = Dec32(@)] ELSE s1} })
        : s \in {s0} })

\* ------------------------------------------------- process.c: life cycle
\* the pid handed out is s.npid
process_get_next_pid(s) ==
    [s EXCEPT !.npid = IF s.npid + 1 >= MAX_PROCESSES THEN 1 ELSE s.npid + 1]

free_slots(s) == {i \in Slots : ~s.used[i]}

\* [p |-> the new process or NULL, s |-> the state after]; stack_ok is whether
\* kmalloc(DEFAULT_STACK_SIZE) succeeds
process_create(s0, priority, stack_ok) ==
    Pick({
        IF free_slots(s) = {} THEN [p |-> NULL, s |-> s]
        ELSE Pick({
            Pick({
                IF ~stack_ok THEN [p |-> NULL, s |-> [s1 EXCEPT !.used[slot] = FALSE]]
                ELSE Pick({
                    [p |-> slot,
                     s |-> [s2 EXCEPT !.stats.total_processes = Inc32(@),
                                      !.stats.active_processes = Inc32(@)]]
                    : s2 \in {LET cur == s1.cur
                              IN IF cur = NULL THEN s1
                                 ELSE LET a == [s1 EXCEPT !.pt[slot].parent = cur]
                                          b == IF s1.pt[cur].children /= NULL
                                               THEN [a EXCEPT
                                                  !.pt[slot].sibling_next = s1.pt[cur].children,
                                                  !.pt[s1.pt[cur].children].sibling_prev = slot]
                                               ELSE a
                                      IN [b EXCEPT !.pt[cur].children = slot]} })
                : s1 \in {[process_get_next_pid(s) EXCEPT
                             !.used[slot] = TRUE,
                             !.pt[slot] =
                                [ZeroProcess EXCEPT
                                   !.pid = s.npid,
                                   !.ppid = IF s.cur /= NULL THEN s.pt[s.cur].pid ELSE 0,
                                   !.state = PROCESS_NEW,
                                   !.priority = priority,
                                   !.policy = SCHED_RR,
                                   !.time_slice = DEFAULT_TIME_SLICE,
                                   !.remaining_slice = DEFAULT_TIME_SLICE,
                                   !.has_stack = stack_ok]]} })
            : slot \in {CHOOSE i \in free_slots(s) : \A j \in free_slots(s) : i <= j} })
        : s \in {s0} })

process_find_by_pid(s, pid) ==
    IF \E i \in Slots : s.used[i] /\ s.pt[i].pid = pid
    THEN CHOOSE i \in Slots : /\ s.used[i] /\ s.pt[i].pid = pid
                              /\ \A j \in Slots : s.used[j] /\ s.pt[j].pid = pid => i <= j
    ELSE NULL

process_exit(s0, p, exit_code) ==
    IF p = NULL THEN s0
    ELSE Pick({
        \* if (process == current_process) scheduler_yield();
        IF p = s1.cur THEN scheduler_yield(s1) ELSE s1
        : s1 \in {process_set_state([s0 EXCEPT !.pt[p].exit_code = exit_code],
                                    p, PROCESS_TERMINATED)} })

\* [rc |-> 0 or -1, s |-> the state after]
process_kill(s0, pid, signal) ==
    Pick({
        Pick({
            IF p = NULL THEN [rc |-> -1, s |-> s]
            ELSE [rc |-> 0, s |-> process_exit(s, p, 0 - signal)]
            : p \in {process_find_by_pid(s, pid)} })
        : s \in {s0} })

process_block(s0, p) ==
    IF p = NULL THEN s0
    ELSE Pick({
        IF p = s3.cur THEN scheduler_yield(s3) ELSE s3
        : s3 \in {queue_add_tail(
                    process_set_state(scheduler_remove_process(s0, p), p, PROCESS_BLOCKED),
                    QBLOCKED, p)} })

process_unblock(s0, p) ==
    Pick({
        IF p = NULL \/ s.pt[p].state /= PROCESS_BLOCKED THEN s
        ELSE process_set_state(queue_remove(s, QBLOCKED, p), p, PROCESS_READY)
        : s \in {s0} })

process_set_priority(s0, p, priority) ==
    IF p = NULL THEN s0
    ELSE Pick({
        Pick({
            IF s2.pt[p].state = PROCESS_READY THEN scheduler_add_process(s2, p) ELSE s2
            : s2 \in {[(IF s.pt[p].state = PROCESS_READY
                        THEN scheduler_remove_process(s, p) ELSE s)
                       EXCEPT !.pt[p].priority = priority]} })
        : s \in {s0} })

\* while (child) { next_child = child->sibling_next; process_kill(child->pid, 9); }
\* fuel bounds the walk by the size of the table
RECURSIVE kill_children(_, _, _)
kill_children(s0, child, fuel) ==
    IF child = NULL \/ fuel = 0 THEN s0
    ELSE Pick({
        kill_children(process_kill(s, s.pt[child].pid, SIGKILL).s,
                      s.pt[child].sibling_next, fuel - 1)
        : s \in {s0} })

\* process_destroy up to the loop: unlink p from its parent's children list
unlink_from_parent(s, p) ==
    LET par == s.pt[p].parent
    IN IF par = NULL THEN s
       ELSE LET a == IF s.pt[par].children = p
                     THEN [s EXCEPT !.pt[par].children = s.pt[p].sibling_next]
                     ELSE s
                b == IF s.pt[p].sibling_prev /= NULL
                     THEN [a EXCEPT !.pt[s.pt[p].sibling_prev].sibling_next =
                                         s.pt[p].sibling_next]
                     ELSE a
            IN IF s.pt[p].sibling_next /= NULL
               THEN [b EXCEPT !.pt[s.pt[p].sibling_next].sibling_prev =
                                   s.pt[p].sibling_prev]
               ELSE b

process_destroy(s0, p) ==
    IF p = NULL THEN s0
    ELSE Pick({
        Pick({
            Pick({
                [s4 EXCEPT !.used[p] = FALSE, !.stats.active_processes = Dec32(@)]
                \* kfree(process->stack_base) leaves the PCB as it is
                : s4 \in {scheduler_remove_process(s2, p)} })
            : s2 \in {kill_children(s1, s1.pt[p].children, MAX_PROCESSES)} })
        : s1 \in {unlink_from_parent(s0, p)} })

\* process_init followed by scheduler_init (kernel.c:189-190)
process_init ==
    Pick({
        LET s1 == [c.s EXCEPT !.idle = c.p]
            s2 == IF c.p /= NULL
                  THEN [s1 EXCEPT !.pt[c.p].pid = IDLE_PROCESS_PID,
                                  !.pt[c.p].state = PROCESS_READY]
                  ELSE s1
        IN [s2 EXCEPT !.cur = c.p]
        : c \in {process_create(
                   [pt |-> [i \in Slots |-> ZeroProcess],
                    used |-> [i \in Slots |-> FALSE],
                    npid |-> 1, cur |-> NULL, idle |-> NULL,
                    rq |-> [i \in Priorities |-> EmptyQueue], bq |-> EmptyQueue,
                    tq |-> EmptyQueue,
                    stats |-> [total_processes |-> 0, active_processes |-> 0,
                               running_processes |-> 0, blocked_processes |-> 0,
                               context_switches |-> 0]],
                   PRIORITY_IDLE, TRUE)} })

\* ---------------------------------------------------------------- actions
\* the tasks other than idle that are Ready or Running
Runnable ==
    {p \in Slots : /\ process_table_used[p] /\ p /= idle_process
                   /\ process_table[p].state \in {PROCESS_READY, PROCESS_RUNNING}}

Commit(s, op) ==
    /\ process_table' = s.pt
    /\ process_table_used' = s.used
    /\ next_pid' = s.npid
    /\ current_process' = s.cur
    /\ idle_process' = s.idle
    /\ ready_queues' = s.rq
    /\ blocked_queue' = s.bq
    /\ terminated_queue' = s.tq
    /\ proc_stats' = s.stats
    /\ last_op' = op
    /\ sched_ops' = sched_ops + 1
    /\ ready_since' =
          [p \in Slots |->
             \* running, or not Ready: not waiting on a ready queue
             IF s.pt[p].state /= PROCESS_READY \/ p = s.cur THEN 0
             \* scheduler_add_process has just been called on it
             ELSE IF \/ process_table[p].state /= PROCESS_READY
                     \/ p = current_process
                     \/ (op.op = "setprio" /\ op.p = p)
             THEN sched_ops + 1
             ELSE ready_since[p]]
    /\ ready_before' = ready_since
    /\ tick_log' = IF op.op = "tick"
                   THEN Append(tick_log, [charged |-> current_process,
                                          runnable |-> Runnable])
                   ELSE tick_log
    /\ waiting_for' =
          [p \in Slots |->
             IF s.pt[p].state /= PROCESS_BLOCKED THEN NULL
             ELSE IF /\ op.op = "wait" /\ op.caller = p
                     /\ process_table[p].state /= PROCESS_BLOCKED
             THEN op.p
             ELSE waiting_for[p]]
    /\ UNCHANGED <<heap_vars, pool_vars, msg_vars, ring_vars>>

MayStep == sched_ops < MaxSchedOps

\* a live task other than idle: what the callers of the process API pass
Tasks == {p \in Slots : process_table_used[p] /\ p /= idle_process}

Live(p) == process_table[p].state \in {PROCESS_READY, PROCESS_RUNNING, PROCESS_BLOCKED}

\* the operation, its process argument, the caller (current_process before the
\* call), that caller's state before the call, a further argument, the result
OpRec(name, p, arg, rc) ==
    [op |-> name, p |-> p, caller |-> current_process,
     caller_state |-> process_table[current_process].state, arg |-> arg, rc |-> rc]

SchedInit ==
    \E s \in {process_init} :
       /\ process_table = s.pt
       /\ process_table_used = s.used
       /\ next_pid = s.npid
       /\ current_process = s.cur
       /\ idle_process = s.idle
       /\ ready_queues = s.rq
       /\ blocked_queue = s.bq
       /\ terminated_queue = s.tq
       /\ proc_stats = s.stats
       /\ last_op = [op |-> "init", p |-> NULL, caller |-> NULL,
                     caller_state |-> PROCESS_NEW, arg |-> 0, rc |-> 0]
       /\ exited = {}
       /\ sched_ops = 0
       /\ ready_since = [p \in Slots |-> 0]
       /\ ready_before = [p \in Slots |-> 0]
       /\ tick_log = <<>>
       /\ waiting_for = [p \in Slots |-> NULL]

\* process_create by the running task
Create ==
    /\ MayStep
    /\ \E priority \in TaskPriorities, stack_ok \in BOOLEAN :
         \E c \in {process_create(SchedState, priority, stack_ok)} :
            /\ Commit(c.s, OpRec("create", c.p, priority, 0))
            /\ exited' = exited \ {c.p}

\* the creator moves a New task to Ready
MakeReady ==
    /\ MayStep
    /\ \E p \in Tasks :
         /\ process_table[p].state = PROCESS_NEW
         /\ \E s \in {process_set_state(SchedState, p, PROCESS_READY)} :
              Commit(s, OpRec("ready", p, 0, 0))
         /\ UNCHANGED exited

\* timer_handler
Tick ==
    /\ MayStep
    /\ \E s \in {scheduler_tick(SchedState)} : Commit(s, OpRec("tick", NULL, 0, 0))
    /\ UNCHANGED exited

\* sys_yield
Yield ==
    /\ MayStep
    /\ \E s \in {scheduler_yield(SchedState)} : Commit(s, OpRec("yield", NULL, 0, 0))
    /\ UNCHANGED exited

\* process_block, as sys_wait and process_sleep call it
Block ==
    /\ MayStep
    /\ \E p \in Tasks :
         /\ process_table[p].state \in {PROCESS_READY, PROCESS_RUNNING}
         /\ \E s \in {process_block(SchedState, p)} : Commit(s, OpRec("block", p, 0, 0))
         /\ UNCHANGED exited

Unblock ==
    /\ MayStep
    /\ \E p \in Tasks :
         /\ Live(p)
         /\ \E s \in {process_unblock(SchedState, p)} :
              Commit(s, OpRec("unblock", p, process_table[p].state, 0))
         /\ UNCHANGED exited

SetPriority ==
    /\ MayStep
    /\ \E p \in Tasks, priority \in TaskPriorities :
         /\ Live(p)
         /\ \E s \in {process_set_priority(SchedState, p, priority)} :
              Commit(s, OpRec("setprio", p, priority, 0))
         /\ UNCHANGED exited

Exit ==
    /\ MayStep
    /\ \E p \in Tasks, code \in ExitCodes :
         /\ Live(p)
         /\ \E s \in {process_exit(SchedState, p, code)} :
              Commit(s, OpRec("exit", p, code, 0))
         /\ exited' = exited \cup {p}

\* sys_kill: the pid of a live task, or one that matches nothing
Kill ==
    /\ MayStep
    /\ \E pid \in 1 .. MAX_PROCESSES :
         \E p \in {process_find_by_pid(SchedState, pid)} :
            /\ p /= NULL => Live(p)
            /\ \E k \in {process_kill(SchedState, pid, SIGKILL)} :
                 Commit(k.s, OpRec("kill", p, pid, k.rc))
            /\ exited' = IF p = NULL THEN exited ELSE exited \cup {p}

\* sys_wait on a terminated child: process_destroy
Destroy ==
    /\ MayStep
    /\ \E p \in Tasks :
         /\ process_table[p].state = PROCESS_TERMINATED
         /\ p /= current_process
         /\ \E s \in {process_destroy(SchedState, p)} :
              Commit(s, OpRec("destroy", p, 0, 0))
         /\ exited' = exited \ {p}

SchedNext ==
    \/ Create
    \/ MakeReady
    \/ Tick
    \/ Yield
    \/ Block
    \/ Unblock
    \/ SetPriority
    \/ Exit
    \/ Kill
    \/ Destroy

\* ------------------------------------------- round-robin environment
\* number of operations explored when tasks are only created, started and
\* ticked
MaxRROps == 14

\* process_create of a Normal task by the running task, the stack allocation
\* succeeding
RRCreate ==
    /\ sched_ops < MaxRROps
    /\ \E priority \in {PRIORITY_NORMAL} :
         \E c \in {process_create(SchedState, priority, TRUE)} :
            Commit(c.s, OpRec("create", c.p, priority, 0))
    /\ UNCHANGED exited

\* the creator moves a New task to Ready
RRMakeReady ==
    /\ sched_ops < MaxRROps
    /\ \E p \in Tasks :
         /\ process_table[p].state = PROCESS_NEW
         /\ \E s \in {process_set_state(SchedState, p, PROCESS_READY)} :
              Commit(s, OpRec("ready", p, 0, 0))
    /\ UNCHANGED exited

\* timer_handler
RRTick ==
    /\ sched_ops < MaxRROps
    /\ \E s \in {scheduler_tick(SchedState)} : Commit(s, OpRec("tick", NULL, 0, 0))
    /\ UNCHANGED exited

RRNext ==
    \/ RRCreate
    \/ RRMakeReady
    \/ RRTick

\* ------------------------------------------- process-tree environment
\* number of operations explored when tasks create tasks, exit and are
\* destroyed
MaxFamilyOps == 8

\* process_create of a Normal task by the running task, the stack allocation
\* succeeding: the new task is a child of current_process
FamCreate ==
    /\ sched_ops < MaxFamilyOps
    /\ \E c \in {process_create(SchedState, PRIORITY_NORMAL, TRUE)} :
         Commit(c.s, OpRec("create", c.p, PRIORITY_NORMAL, 0))
    /\ UNCHANGED exited

\* the creator moves a New task to Ready
FamMakeReady ==
    /\ sched_ops < MaxFamilyOps
    /\ \E p \in Tasks :
         /\ process_table[p].state = PROCESS_NEW
         /\ \E s \in {process_set_state(SchedState, p, PROCESS_READY)} :
              Commit(s, OpRec("ready", p, 0, 0))
    /\ UNCHANGED exited

\* timer_handler
FamTick ==
    /\ sched_ops < MaxFamilyOps
    /\ \E s \in {scheduler_tick(SchedState)} : Commit(s, OpRec("tick", NULL, 0, 0))
    /\ UNCHANGED exited

\* process_exit(current_process, 0), as sys_exit calls it on the running task
FamExit ==
    /\ sched_ops < MaxFamilyOps
    /\ current_process \in Tasks
    /\ process_table[current_process].state = PROCESS_RUNNING
    /\ \E s \in {process_exit(SchedState, current_process, 0)} :
         Commit(s, OpRec("exit", current_process, 0, 0))
    /\ exited' = exited \cup {current_process}

\* process_destroy of a terminated task
FamDestroy ==
    /\ sched_ops < MaxFamilyOps
    /\ \E p \in Tasks :
         /\ process_table[p].state = PROCESS_TERMINATED
         /\ p /= current_process
         /\ \E s \in {process_destroy(SchedState, p)} :
              Commit(s, OpRec("destroy", p, 0, 0))
         /\ exited' = exited \ {p}

FamNext ==
    \/ FamCreate
    \/ FamMakeReady
    \/ FamTick
    \/ FamExit
    \/ FamDestroy

\* ------------------------------------------------- the process syscalls
\* number of system calls and timer ticks explored from boot
MaxWaitOps == 9

\* [rc |-> the pid of the child or -1, p |-> the child or NULL, s |-> the
\* state after]; the child gets the caller's priority (parent and ppid are
\* already set by process_create)
sys_fork(s0, stack_ok) ==
    Pick({
        IF s.cur = NULL THEN [rc |-> -1, p |-> NULL, s |-> s]
        ELSE Pick({
            IF c.p = NULL THEN [rc |-> -1, p |-> NULL, s |-> c.s]
            ELSE [rc |-> c.s.pt[c.p].pid, p |-> c.p, s |-> c.s]
            : c \in {process_create(s, s.pt[s.cur].priority, stack_ok)} })
        : s \in {s0} })

\* process_exit(current_process, exit_code); scheduler_yield();
sys_exit(s0, exit_code) ==
    IF s0.cur = NULL THEN s0
    ELSE scheduler_yield(process_exit(s0, s0.cur, exit_code))

\* [rc |-> 0 when the caller was blocked, the pid of the child reaped, or -1,
\* child |-> the process found or NULL, s |-> the state after]
sys_wait(s0, child_pid) ==
    Pick({
        IF s.cur = NULL THEN [rc |-> -1, child |-> NULL, s |-> s]
        ELSE Pick({
            IF child = NULL THEN [rc |-> -1, child |-> NULL, s |-> s]
            ELSE IF s.pt[child].ppid /= s.pt[s.cur].pid
            THEN [rc |-> -1, child |-> child, s |-> s]
            \* the child is still running: block the caller
            ELSE IF s.pt[child].state \notin {PROCESS_TERMINATED, PROCESS_ZOMBIE}
            THEN [rc |-> 0, child |-> child, s |-> process_block(s, s.cur)]
            ELSE [rc |-> s.pt[child].pid, child |-> child,
                  s |-> process_destroy(s, child)]
            : child \in {process_find_by_pid(s, child_pid)} })
        : s \in {s0} })

\* the task that issues system calls: the one the CPU was given to
Caller == current_process /= NULL /\ current_process \in Tasks
                                  /\ process_table[current_process].state = PROCESS_RUNNING

\* sys_fork by current_process
WaitFork ==
    /\ sched_ops < MaxWaitOps
    /\ \E f \in {sys_fork(SchedState, TRUE)} :
         /\ Commit(f.s, OpRec("create", f.p, f.rc, f.rc))
         /\ exited' = exited \ {f.p}

\* the creator moves a New task to Ready
WaitStart ==
    /\ sched_ops < MaxWaitOps
    /\ \E p \in Tasks :
         /\ process_table[p].state = PROCESS_NEW
         /\ \E s \in {process_set_state(SchedState, p, PROCESS_READY)} :
              Commit(s, OpRec("ready", p, 0, 0))
    /\ UNCHANGED exited

\* timer_handler
WaitTick ==
    /\ sched_ops < MaxWaitOps
    /\ \E s \in {scheduler_tick(SchedState)} : Commit(s, OpRec("tick", NULL, 0, 0))
    /\ UNCHANGED exited

\* sys_wait by the running task on any pid
SysWait ==
    /\ sched_ops < MaxWaitOps
    /\ Caller
    /\ \E child_pid \in 1 .. MAX_PROCESSES :
         \E w \in {sys_wait(SchedState, child_pid)} :
            /\ Commit(w.s, OpRec("wait", w.child, child_pid, w.rc))
            /\ exited' = IF w.rc > 0 THEN exited \ {w.child} ELSE exited

\* sys_exit by the running task
SysExit ==
    /\ sched_ops < MaxWaitOps
    /\ Caller
    /\ \E s \in {sys_exit(SchedState, 0)} :
         Commit(s, OpRec("exit", current_process, 0, 0))
    /\ exited' = exited \cup {current_process}

\* sys_kill by the running task on the pid of a live task
SysKill ==
    /\ sched_ops < MaxWaitOps
    /\ Caller
    /\ \E pid \in 1 .. MAX_PROCESSES :
         \E p \in {process_find_by_pid(SchedState, pid)} :
            /\ p /= NULL /\ Live(p)
            /\ \E k \in {process_kill(SchedState, pid, SIGKILL)} :
                 Commit(k.s, OpRec("kill", p, pid, k.rc))
            /\ exited' = exited \cup {p}

WaitNext ==
    \/ WaitFork
    \/ WaitStart
    \/ WaitTick
    \/ SysWait
    \/ SysExit
    \/ SysKill

\* ================================================================ heap
\* ---------------------------------------------------------------- bounds
\* memory.h:9 has a 4 MB heap; the model keeps this many 8-byte words of it.
HeapWords == 128
\* memory.h:17 has 1024 tracking entries; the model keeps this many.
MAX_ALLOCATIONS == 3
\* number of kmalloc/kfree calls explored from memory_init
MaxHeapOps == 5

\* ------------------------------------------------------- program constants
KERNEL_HEAP_SIZE == 8 * HeapWords
KERNEL_HEAP_START == 1048576
\* 0xDEADBEEF, 0xFEEDFACE and the 0xDD fill as signed 32-bit representatives
MEMORY_GUARD_MAGIC == -559038737
MEMORY_FREE_MAGIC == -17958194
FILL_DD == -572662307
\* sizeof(mem_block_t): eight 4-byte fields
sizeof_mem_block_t == 32
\* the slack a block must have beyond the request and a header to be split
SPLIT_SLACK == 16

\* sizes the environment asks for
ReqSizes == {100, 150, 200, 300}

TrackSlots == 0 .. (MAX_ALLOCATIONS - 1)

\* The allocator's globals as one value, threaded through the C functions.
\* mem maps the address of every block header written so far to its fields.
HeapState ==
    [mem |-> heap_mem, start |-> heap_start, stats |-> heap_stats,
     allocs |-> allocations, nid |-> next_alloc_id]

memory_init ==
    [mem |-> (KERNEL_HEAP_START :>
                [magic |-> MEMORY_GUARD_MAGIC,
                 size |-> KERNEL_HEAP_SIZE - sizeof_mem_block_t,
                 free |-> 1, alloc_id |-> 0, next |-> NULL, prev |-> NULL]),
     start |-> KERNEL_HEAP_START,
     stats |-> [total_memory |-> KERNEL_HEAP_SIZE,
                used_memory |-> sizeof_mem_block_t,
                free_memory |-> KERNEL_HEAP_SIZE - sizeof_mem_block_t,
                total_allocations |-> 0, active_allocations |-> 0,
                failed_allocations |-> 0, free_operations |-> 0,
                coalesce_operations |-> 0,
                largest_free_block |-> KERNEL_HEAP_SIZE - sizeof_mem_block_t,
                fragmentation_ratio |-> 0],
     allocs |-> [i \in TrackSlots |->
                   [ptr |-> NULL, size |-> 0, alloc_id |-> 0, timestamp |-> 0]],
     nid |-> 1]

\* size = (size + 7) & ~7
Align8(size) == ((size + 7) \div 8) * 8

\* the while loop of _kmalloc_debug: [corrupt |-> a block with a wrong magic
\* was met, best_fit |-> the block chosen or NULL]
RECURSIVE best_fit_walk(_, _, _, _)
best_fit_walk(mem, current, best_fit, size) ==
    IF current = NULL THEN [corrupt |-> FALSE, best_fit |-> best_fit]
    ELSE IF mem[current].magic /= MEMORY_GUARD_MAGIC
    THEN [corrupt |-> TRUE, best_fit |-> NULL]
    ELSE Pick({
        best_fit_walk(mem, mem[current].next, bf, size)
        : bf \in {IF /\ mem[current].free /= 0
                     /\ mem[current].size >= size
                     /\ (best_fit = NULL \/ mem[current].size < mem[best_fit].size)
                  THEN current ELSE best_fit} })

\* if (best_fit->size > size + sizeof(mem_block_t) + 16) { ... split ... }
split_block(mem, best_fit, size) ==
    IF mem[best_fit].size > size + sizeof_mem_block_t + SPLIT_SLACK
    THEN LET new_block == best_fit + sizeof_mem_block_t + size
             hdr == [magic |-> MEMORY_GUARD_MAGIC,
                     size |-> mem[best_fit].size - size - sizeof_mem_block_t,
                     free |-> 1, alloc_id |-> 0,
                     next |-> mem[best_fit].next, prev |-> best_fit]
         IN [a \in DOMAIN mem \cup {new_block} |->
               IF a = new_block THEN hdr
               ELSE IF a = mem[best_fit].next THEN [mem[a] EXCEPT !.prev = new_block]
               ELSE IF a = best_fit THEN [mem[a] EXCEPT !.size = size, !.next = new_block]
               ELSE mem[a]]
    ELSE mem

\* the tracking loops: the first entry whose ptr is the one looked for
first_entry(allocs, ptr) ==
    IF \E i \in TrackSlots : allocs[i].ptr = ptr
    THEN CHOOSE i \in TrackSlots :
            /\ allocs[i].ptr = ptr
            /\ \A j \in TrackSlots : allocs[j].ptr = ptr => i <= j
    ELSE NULL

\* [ptr |-> the pointer returned, h |-> the state after]
kmalloc_debug(h0, size0) ==
    IF size0 = 0 THEN [ptr |-> NULL, h |-> h0]
    ELSE Pick({
        Pick({
            IF w.corrupt THEN [ptr |-> NULL, h |-> h]
            ELSE IF w.best_fit = NULL
            THEN [ptr |-> NULL, h |-> [h EXCEPT !.stats.failed_allocations = Inc32(@)]]
            ELSE Pick({
                LET best_fit == w.best_fit
                    ptr == best_fit + sizeof_mem_block_t
                    bsize == m1[best_fit].size
                    \* best_fit->free = 0; best_fit->alloc_id = next_alloc_id++;
                    m2 == [m1 EXCEPT ![best_fit].free = 0, ![best_fit].alloc_id = h.nid]
                    st == [h.stats EXCEPT !.used_memory = @ + bsize,
                                          !.free_memory = @ - bsize,
                                          !.total_allocations = Inc32(@),
                                          !.active_allocations = Inc32(@)]
                    i == first_entry(h.allocs, NULL)
                    al == IF i = NULL THEN h.allocs
                          ELSE [h.allocs EXCEPT ![i] =
                                  [ptr |-> ptr, size |-> bsize, alloc_id |-> h.nid,
                                   timestamp |-> st.total_allocations]]
                IN [ptr |-> ptr,
                    h |-> [h EXCEPT !.mem = m2, !.stats = st, !.allocs = al,
                                    !.nid = Inc32(@)]]
                : m1 \in {split_block(h.mem, w.best_fit, size)} })
            : w \in {best_fit_walk(h.mem, h.start, NULL, size)} })
        : h \in {h0}, size \in {Align8(size0)} })

\* coalesce with the next block if it is free
coalesce_next(h, block) ==
    LET mem == h.mem
        nxt == mem[block].next
    IN IF nxt /= NULL /\ mem[nxt].free /= 0
       THEN [h EXCEPT
               !.mem = [a \in DOMAIN mem |->
                          IF a = block
                          THEN [mem[a] EXCEPT
                                  !.size = @ + mem[nxt].size + sizeof_mem_block_t,
                                  !.next = mem[nxt].next]
                          ELSE IF a = mem[nxt].next THEN [mem[a] EXCEPT !.prev = block]
                          ELSE mem[a]],
               !.stats.coalesce_operations = Inc32(@)]
       ELSE h

\* coalesce_prev with the merge left out
coalesce_prev_skipped(h, block) == h

\* coalesce with the previous block if it is free
coalesce_prev(h, block) ==
    LET mem == h.mem
        prv == mem[block].prev
    IN IF prv /= NULL /\ mem[prv].free /= 0
       THEN [h EXCEPT
               !.mem = [a \in DOMAIN mem |->
                          IF a = prv
                          THEN [mem[a] EXCEPT
                                  !.size = @ + mem[block].size + sizeof_mem_block_t,
                                  !.next = mem[block].next]
                          ELSE IF a = mem[block].next THEN [mem[a] EXCEPT !.prev = prv]
                          ELSE mem[a]],
               !.stats.coalesce_operations = Inc32(@)]
       ELSE h

\* memset(ptr, 0xDD, n): every header lying in [ptr, ptr + n) is overwritten
fill_dd(mem, ptr, n) ==
    [a \in DOMAIN mem |->
       IF ptr <= a /\ a < ptr + n
       THEN [magic |-> FILL_DD, size |-> FILL_DD, free |-> FILL_DD,
             alloc_id |-> FILL_DD, next |-> FILL_DD, prev |-> FILL_DD]
       ELSE mem[a]]

\* what _kmalloc_debug writes to the screen: "corruption" for "Heap corruption
\* detected in kmalloc!", "none" for nothing
kmalloc_diagnostic(h, size0) ==
    IF size0 /= 0 /\ best_fit_walk(h.mem, h.start, NULL, Align8(size0)).corrupt
    THEN "corruption" ELSE "none"

\* what _kfree_debug writes to the screen: "corruption" for "Double free or
\* corruption detected in kfree!", "double" for "Double free detected!",
\* "none" for nothing
kfree_diagnostic(h, ptr) ==
    IF ptr = NULL THEN "none"
    ELSE IF h.mem[ptr - sizeof_mem_block_t].magic /= MEMORY_GUARD_MAGIC THEN "corruption"
    ELSE IF h.mem[ptr - sizeof_mem_block_t].free /= 0 THEN "double"
    ELSE "none"

\* _kfree_debug with both of its tests left out
kfree_debug_unchecked(h0, ptr) ==
    IF ptr = NULL THEN h0
    ELSE Pick({
        LET block == ptr - sizeof_mem_block_t
        IN Pick({
               Pick({
                   Pick({
                       [h3 EXCEPT !.mem = fill_dd(h3.mem, ptr, h3.mem[block].size)]
                       : h3 \in {coalesce_prev(h2, block)} })
                   : h2 \in {coalesce_next(h1, block)} })
               : h1 \in {LET bsize == h.mem[block].size
                             i == first_entry(h.allocs, ptr)
                         IN [h EXCEPT
                               !.mem[block].free = 1,
                               !.mem[block].magic = MEMORY_FREE_MAGIC,
                               !.stats.used_memory = @ - bsize,
                               !.stats.free_memory = @ + bsize,
                               !.stats.free_operations = Inc32(@),
                               !.stats.active_allocations = Dec32(@),
                               !.allocs = IF i = NULL THEN @
                                          ELSE [@ EXCEPT ![i].ptr = NULL]]} })
        : h \in {h0} })

kfree_debug(h0, ptr) ==
    IF ptr = NULL THEN h0
    ELSE Pick({
        LET block == ptr - sizeof_mem_block_t
        IN IF h.mem[block].magic /= MEMORY_GUARD_MAGIC THEN h
           ELSE IF h.mem[block].free /= 0 THEN h
           ELSE Pick({
               Pick({
                   Pick({
                       [h3 EXCEPT !.mem = fill_dd(h3.mem, ptr, h3.mem[block].size)]
                       : h3 \in {coalesce_prev(h2, block)} })
                   : h2 \in {coalesce_next(h1, block)} })
               : h1 \in {LET bsize == h.mem[block].size
                             i == first_entry(h.allocs, ptr)
                         IN [h EXCEPT
                               !.mem[block].free = 1,
                               !.mem[block].magic = MEMORY_FREE_MAGIC,
                               !.stats.used_memory = @ - bsize,
                               !.stats.free_memory = @ + bsize,
                               !.stats.free_operations = Inc32(@),
                               !.stats.active_allocations = Dec32(@),
                               !.allocs = IF i = NULL THEN @
                                          ELSE [@ EXCEPT ![i].ptr = NULL]]} })
        : h \in {h0} })

\* the while loop of get_heap_stats: the largest size among the free blocks
\* from current on, starting from largest
RECURSIVE largest_free_walk(_, _, _, _)
largest_free_walk(mem, current, largest, fuel) ==
    IF current = NULL \/ fuel = 0 THEN largest
    ELSE largest_free_walk(mem, mem[current].next,
                           IF mem[current].free /= 0 /\ mem[current].size > largest
                           THEN mem[current].size ELSE largest,
                           fuel - 1)

\* the statistics get_heap_stats stores and copies out
get_heap_stats(h0) ==
    Pick({
        Pick({
            [h EXCEPT !.stats.largest_free_block = largest,
                      !.stats.fragmentation_ratio =
                          IF h.stats.free_memory /= 0
                          THEN (largest * 100) \div h.stats.free_memory ELSE @]
            : largest \in {largest_free_walk(h.mem, h.start, 0, MaxHeapOps + 1)} })
        : h \in {h0} })

\* the blocks from heap_start through next links, in list order
RECURSIVE BlockList(_, _, _)
BlockList(mem, current, fuel) ==
    IF current = NULL \/ fuel = 0 THEN <<>>
    ELSE <<[addr |-> current, size |-> mem[current].size, free |-> mem[current].free]>>
         \o BlockList(mem, mem[current].next, fuel - 1)

\* ---------------------------------------------------------------- actions
HeapCommit(h, entry) ==
    /\ heap_mem' = h.mem
    /\ heap_start' = h.start
    /\ heap_stats' = h.stats
    /\ allocations' = h.allocs
    /\ next_alloc_id' = h.nid
    /\ heap_log' = Append(heap_log, entry)
    /\ heap_before' = BlockList(heap_mem, heap_start, MaxHeapOps + 1)
    /\ heap_stats_before' = heap_stats
    /\ heap_prev' = HeapState
    /\ UNCHANGED <<sched_vars, msg_vars, ring_vars>>

HeapInit ==
    \E h \in {memory_init} :
       /\ heap_mem = h.mem
       /\ heap_start = h.start
       /\ heap_stats = h.stats
       /\ allocations = h.allocs
       /\ next_alloc_id = h.nid
       /\ heap_log = <<>>
       /\ heap_before = <<>>
       /\ heap_stats_before = h.stats
       /\ heap_prev = h

\* pointers kmalloc has handed out so far
Returned == {heap_log[i].ret : i \in {j \in DOMAIN heap_log : heap_log[j].op = "alloc"}}
               \ {NULL}

Kmalloc ==
    /\ Len(heap_log) < MaxHeapOps
    /\ \E size \in ReqSizes :
         \E r \in {kmalloc_debug(HeapState, size)} :
            HeapCommit(r.h, [op |-> "alloc", arg |-> size, ret |-> r.ptr,
                             diag |-> kmalloc_diagnostic(HeapState, size)])
    /\ UNCHANGED pool_vars

\* kfree of a pointer kmalloc returned, freed before or not
Kfree ==
    /\ Len(heap_log) < MaxHeapOps
    /\ \E ptr \in Returned :
         \E h \in {kfree_debug(HeapState, ptr)} :
            HeapCommit(h, [op |-> "free", arg |-> ptr, ret |-> NULL,
                           diag |-> kfree_diagnostic(HeapState, ptr)])
    /\ UNCHANGED pool_vars

\* get_heap_stats, as print_heap_stats calls it
GetHeapStats ==
    /\ \E h \in {get_heap_stats(HeapState)} : heap_stats' = h.stats
    /\ UNCHANGED <<heap_mem, heap_start, allocations, next_alloc_id, heap_log,
                   heap_before, heap_stats_before, heap_prev>>
    /\ UNCHANGED <<sched_vars, pool_vars, msg_vars, ring_vars>>

HeapNext ==
    \/ Kmalloc
    \/ Kfree
    \/ GetHeapStats

\* ========================================================= memory pools
\* ---------------------------------------------------------------- bounds
\* number of pool operations explored
MaxPoolOps == 4
\* number of process_create calls made between the pool operations
MaxPoolTasks == 1

\* ------------------------------------------------------- program constants
\* sizeof(memory_pool_t): five 4-byte fields
sizeof_memory_pool_t == 20
\* bits in a bitmap word, bytes in a bitmap word
WORD_BITS == 32
WORD_BYTES == 4

\* block sizes and counts the environment asks for: a pool that fits, one
\* whose slab leaves no room for the bitmap, one whose slab does not fit
PoolBlockSizes == {8, 456, 512}
PoolBlockCounts == {2, 3}

NoPool == [hdr |-> NULL]

\* memset(pool->free_bitmap, 0xFF, ...): a bitmap word is the set of its set
\* bits
AllOnes == 0 .. (WORD_BITS - 1)

\* create_memory_pool with nothing freed when a later allocation fails
create_memory_pool_leaky(h0, block_size0, block_count) ==
    Pick({
        IF a.ptr = NULL THEN [pool |-> NoPool, h |-> a.h]
        ELSE Pick({
            IF b.ptr = NULL THEN [pool |-> NoPool, h |-> b.h]
            ELSE Pick({
                IF c.ptr = NULL THEN [pool |-> NoPool, h |-> c.h]
                ELSE [pool |-> [hdr |-> a.ptr, pool_start |-> b.ptr,
                                block_size |-> block_size, block_count |-> block_count,
                                free_bitmap |-> c.ptr,
                                bits |-> [w \in 0 .. ((block_count + WORD_BITS - 1)
                                                      \div WORD_BITS - 1) |-> AllOnes],
                                free_blocks |-> block_count],
                      h |-> c.h]
                : c \in {kmalloc_debug(b.h, ((block_count + WORD_BITS - 1) \div WORD_BITS)
                                            * WORD_BYTES)} })
            : b \in {kmalloc_debug(a.h, block_size * block_count)} })
        : a \in {kmalloc_debug(h0, sizeof_memory_pool_t)},
          block_size \in {Align8(block_size0)} })

\* [pool |-> the pool or NoPool, h |-> the heap after]
create_memory_pool(h0, block_size0, block_count) ==
    Pick({
        IF a.ptr = NULL THEN [pool |-> NoPool, h |-> a.h]
        ELSE Pick({
            \* if (!pool->pool_start) { kfree(pool); return NULL; }
            IF b.ptr = NULL THEN [pool |-> NoPool, h |-> kfree_debug(b.h, a.ptr)]
            ELSE Pick({
                \* if (!pool->free_bitmap) { kfree(pool->pool_start); kfree(pool); ... }
                IF c.ptr = NULL
                THEN [pool |-> NoPool,
                      h |-> kfree_debug(kfree_debug(c.h, b.ptr), a.ptr)]
                ELSE [pool |-> [hdr |-> a.ptr, pool_start |-> b.ptr,
                                block_size |-> block_size, block_count |-> block_count,
                                free_bitmap |-> c.ptr,
                                bits |-> [w \in 0 .. ((block_count + WORD_BITS - 1)
                                                      \div WORD_BITS - 1) |-> AllOnes],
                                free_blocks |-> block_count],
                      h |-> c.h]
                : c \in {kmalloc_debug(b.h, ((block_count + WORD_BITS - 1) \div WORD_BITS)
                                            * WORD_BYTES)} })
            : b \in {kmalloc_debug(a.h, block_size * block_count)} })
        : a \in {kmalloc_debug(h0, sizeof_memory_pool_t)},
          block_size \in {Align8(block_size0)} })

\* the blocks whose bit is set, in index order
free_indices(pl) ==
    {i \in 0 .. (pl.block_count - 1) : (i % WORD_BITS) \in pl.bits[i \div WORD_BITS]}

\* [ptr |-> the pointer returned, pool |-> the pool after]
pool_alloc(pl) ==
    IF pl = NoPool \/ pl.free_blocks = 0 THEN [ptr |-> NULL, pool |-> pl]
    ELSE IF free_indices(pl) = {} THEN [ptr |-> NULL, pool |-> pl]
    ELSE Pick({
        [ptr |-> pl.pool_start + i * pl.block_size,
         pool |-> [pl EXCEPT !.bits[i \div WORD_BITS] = @ \ {i % WORD_BITS},
                             !.free_blocks = Dec32(@)]]
        : i \in {CHOOSE i \in free_indices(pl) : \A j \in free_indices(pl) : i <= j} })

\* the pool after pool_free(pool, ptr); ptr is at or above pool_start
pool_free(pl, ptr) ==
    IF pl = NoPool \/ ptr = NULL THEN pl
    ELSE Pick({
        IF offset % pl.block_size /= 0 THEN pl
        ELSE IF offset \div pl.block_size >= pl.block_count THEN pl
        ELSE Pick({
            [pl EXCEPT !.bits[i \div WORD_BITS] = @ \cup {i % WORD_BITS},
                       !.free_blocks = Inc32(@)]
            : i \in {offset \div pl.block_size} })
        : offset \in {ptr - pl.pool_start} })

\* ---------------------------------------------------------------- actions
PoolInit ==
    /\ pool = NoPool
    /\ pool_out = <<>>
    /\ pool_returned = {}
    /\ pool_last = [op |-> "init", arg |-> 0, ret |-> NULL]
    /\ pool_ops = 0

\* the sequence without the first occurrence of x
RECURSIVE RemoveFirst(_, _)
RemoveFirst(seq, x) ==
    IF seq = <<>> THEN <<>>
    ELSE IF Head(seq) = x THEN Tail(seq)
    ELSE <<Head(seq)>> \o RemoveFirst(Tail(seq), x)

PoolCreate ==
    /\ pool_ops < MaxPoolOps
    /\ pool = NoPool
    /\ \E block_size \in PoolBlockSizes, block_count \in PoolBlockCounts :
         \E r \in {create_memory_pool(HeapState, block_size, block_count)} :
            /\ HeapCommit(r.h, [op |-> "pool_create", arg |-> block_size * block_count,
                                ret |-> r.pool.hdr, diag |-> "none"])
            /\ pool' = r.pool
            /\ pool_last' = [op |-> "create", arg |-> block_size * block_count,
                             ret |-> r.pool.hdr]
    /\ pool_ops' = pool_ops + 1
    /\ UNCHANGED <<pool_out, pool_returned>>

PoolAlloc ==
    /\ pool_ops < MaxPoolOps
    /\ pool /= NoPool
    /\ \E r \in {pool_alloc(pool)} :
         /\ pool' = r.pool
         /\ pool_out' = IF r.ptr = NULL THEN pool_out ELSE Append(pool_out, r.ptr)
         /\ pool_returned' = pool_returned \cup ({r.ptr} \ {NULL})
         /\ pool_last' = [op |-> "alloc", arg |-> 0, ret |-> r.ptr]
    /\ pool_ops' = pool_ops + 1
    /\ UNCHANGED heap_vars
    /\ UNCHANGED <<sched_vars, msg_vars, ring_vars>>

\* pool_free of a pointer pool_alloc returned, freed before or not, of a
\* pointer into the middle of a block, or of the end of the slab
PoolFree ==
    /\ pool_ops < MaxPoolOps
    /\ pool /= NoPool
    /\ \E ptr \in pool_returned
                  \cup {pool.pool_start + 4,
                        pool.pool_start + pool.block_count * pool.block_size} :
         /\ pool' = pool_free(pool, ptr)
         /\ pool_out' = RemoveFirst(pool_out, ptr)
         /\ pool_last' = [op |-> "free", arg |-> ptr, ret |-> NULL]
    /\ pool_ops' = pool_ops + 1
    /\ UNCHANGED <<pool_returned, heap_vars>>
    /\ UNCHANGED <<sched_vars, msg_vars, ring_vars>>

\* process_create between the pool operations, its stack allocation
\* succeeding or failing
PoolTaskCreate ==
    /\ sched_ops < MaxPoolTasks
    /\ \E priority \in TaskPriorities, stack_ok \in BOOLEAN :
         \E c \in {process_create(SchedState, priority, stack_ok)} :
            Commit(c.s, OpRec("create", c.p, priority, 0))
    /\ UNCHANGED exited

PoolNext ==
    \/ PoolCreate
    \/ PoolAlloc
    \/ PoolFree
    \/ PoolTaskCreate

\* ====================================================== message queues
\* ---------------------------------------------------------------- bounds
\* ipc.h:7 has 32 queues; the model keeps this many.
MAX_MESSAGE_QUEUES == 2
\* ipc.h:9 has 64 messages per queue; the model keeps this many.
MAX_QUEUE_SIZE == 2
\* the largest queue id msgget hands out in the model
MaxMsgqId == 2
\* number of accepted sends explored
MaxSends == 2

\* ------------------------------------------------------- program constants
MAX_MESSAGE_SIZE == 1024
IPC_CREAT == 512
IPC_NOWAIT == 2048
IPC_RMID == 0
\* 0777
PERM_MASK == 511

QueueSlots == 0 .. (MAX_MESSAGE_QUEUES - 1)
MsgSlots == 0 .. (MAX_QUEUE_SIZE - 1)
\* what the environment passes
Keys == {1, 2}
GetFlags == {0, IPC_CREAT + 438}
MsgIds == 1 .. MaxMsgqId
MsgTypes == {1, 2}
SendSizes == {8, MAX_MESSAGE_SIZE + 1}
RcvSizes == {4, MAX_MESSAGE_SIZE}
Cmds == {IPC_RMID, 1}

\* x & y on naturals
RECURSIVE And(_, _)
And(x, y) ==
    IF x = 0 \/ y = 0 THEN 0
    ELSE (x % 2) * (y % 2) + 2 * And(x \div 2, y \div 2)

\* a message_t of the static table before anything is stored; the timestamp
\* field, which no function reads, is left out
ZeroMessage == [type |-> 0, sender_pid |-> 0, size |-> 0, data |-> 0, priority |-> 0]

\* ipc_init on the zeroed static table
ipc_init ==
    [mq |-> [i \in QueueSlots |->
               [in_use |-> 0, id |-> 0, key |-> 0, head |-> 0, tail |-> 0, count |-> 0,
                max_size |-> 0, permissions |-> 0, creator_pid |-> 0,
                messages |-> [k \in MsgSlots |-> ZeroMessage]]],
     nid |-> 1]

IpcState == [mq |-> message_queues, nid |-> next_msgq_id]

\* current_process ? current_process->pid : 0
caller_pid ==
    IF current_process /= NULL THEN process_table[current_process].pid ELSE 0

\* the lowest index satisfying a loop's test, NULL when the loop finds none
first_of(S) == IF S = {} THEN NULL ELSE CHOOSE i \in S : \A j \in S : i <= j

\* the "Find message queue" loop
find_queue(mq, msgid) ==
    first_of({i \in QueueSlots : mq[i].in_use /= 0 /\ mq[i].id = msgid})

\* msgget handing out next_msgq_id without advancing it
msgget_same_id(s, key, flags) ==
    LET found == first_of({i \in QueueSlots : s.mq[i].in_use /= 0 /\ s.mq[i].key = key})
        unused == first_of({i \in QueueSlots : s.mq[i].in_use = 0})
    IN IF found /= NULL THEN [rc |-> s.mq[found].id, s |-> s]
       ELSE IF And(flags, IPC_CREAT) /= 0 /\ unused /= NULL
       THEN [rc |-> s.nid,
             s |-> [s EXCEPT !.mq[unused] =
                                [@ EXCEPT !.in_use = 1, !.id = s.nid, !.key = key,
                                          !.head = 0, !.tail = 0, !.count = 0,
                                          !.max_size = MAX_QUEUE_SIZE,
                                          !.permissions = And(flags, PERM_MASK),
                                          !.creator_pid = caller_pid]]]
       ELSE [rc |-> -1, s |-> s]

\* [rc |-> the id returned (-1 is 0xFFFFFFFF), s |-> the state after]
msgget(s, key, flags) ==
    LET found == first_of({i \in QueueSlots : s.mq[i].in_use /= 0 /\ s.mq[i].key = key})
        unused == first_of({i \in QueueSlots : s.mq[i].in_use = 0})
    IN IF found /= NULL THEN [rc |-> s.mq[found].id, s |-> s]
       ELSE IF And(flags, IPC_CREAT) /= 0 /\ unused /= NULL
       THEN [rc |-> s.nid,
             s |-> [s EXCEPT !.nid = Inc32(@),
                             !.mq[unused] =
                                [@ EXCEPT !.in_use = 1, !.id = s.nid, !.key = key,
                                          !.head = 0, !.tail = 0, !.count = 0,
                                          !.max_size = MAX_QUEUE_SIZE,
                                          !.permissions = And(flags, PERM_MASK),
                                          !.creator_pid = caller_pid]]]
       ELSE [rc |-> -1, s |-> s]

\* msg is <<>> for a null pointer and <<m>> for a pointer to the message m
msgsnd(s, msgid, msg, size, flags) ==
    IF msg = <<>> \/ size > MAX_MESSAGE_SIZE THEN [rc |-> -1, s |-> s]
    ELSE LET q == find_queue(s.mq, msgid)
         IN IF q = NULL THEN [rc |-> -1, s |-> s]
            ELSE IF s.mq[q].count >= s.mq[q].max_size THEN [rc |-> -1, s |-> s]
            ELSE [rc |-> 0,
                  s |-> [s EXCEPT
                           !.mq[q].messages[s.mq[q].tail] =
                              [msg[1] EXCEPT !.sender_pid = caller_pid, !.size = size],
                           !.mq[q].tail = (@ + 1) % s.mq[q].max_size,
                           !.mq[q].count = Inc32(@)]]

\* for (j = i; j < queue->count - 1; j++) messages[head + j] = messages[head + j + 1]
RECURSIVE shift_down(_, _, _)
shift_down(Q, j, messages) ==
    IF j >= Q.count - 1 THEN messages
    ELSE shift_down(Q, j + 1,
                    [messages EXCEPT ![(Q.head + j) % Q.max_size] =
                                        messages[(Q.head + j + 1) % Q.max_size]])

\* [rc |-> the size returned or -1, msg |-> <<m>> when a message was copied
\*  out, s |-> the state after]
msgrcv(s, msgid, has_msg, size, type, flags) ==
    IF ~has_msg THEN [rc |-> -1, msg |-> <<>>, s |-> s]
    ELSE LET q == find_queue(s.mq, msgid)
         IN IF q = NULL THEN [rc |-> -1, msg |-> <<>>, s |-> s]
            ELSE LET Q == s.mq[q]
                     i == first_of({k \in 0 .. (Q.count - 1) :
                                      \/ type = 0
                                      \/ Q.messages[(Q.head + k) % Q.max_size].type = type})
                 IN IF i = NULL THEN [rc |-> -1, msg |-> <<>>, s |-> s]
                    ELSE LET candidate == Q.messages[(Q.head + i) % Q.max_size]
                         IN IF candidate.size > size
                            THEN [rc |-> -1, msg |-> <<>>, s |-> s]
                            ELSE [rc |-> candidate.size,
                                  msg |-> <<candidate>>,
                                  s |-> [s EXCEPT
                                           !.mq[q].messages = shift_down(Q, i, @),
                                           !.mq[q].count = Dec32(@)]]

\* msgctl whose IPC_RMID leaves the queue in use
msgctl_keeping(s, msgid, cmd) ==
    LET q == find_queue(s.mq, msgid)
    IN IF q = NULL THEN [rc |-> -1, s |-> s]
       ELSE IF cmd = IPC_RMID THEN [rc |-> 0, s |-> s]
       ELSE [rc |-> -1, s |-> s]

\* [rc, s]
msgctl(s, msgid, cmd) ==
    LET q == find_queue(s.mq, msgid)
    IN IF q = NULL THEN [rc |-> -1, s |-> s]
       ELSE IF cmd = IPC_RMID THEN [rc |-> 0, s |-> [s EXCEPT !.mq[q].in_use = 0]]
       ELSE [rc |-> -1, s |-> s]

\* ------------------------------ msgsnd and msgrcv, statement by statement
\* the two tasks the timer interrupt switches between
RaceTasks == {1, 2}

\* a task outside msgsnd and msgrcv; inside, pc names the statement the task
\* executes next, q, slot, i, j, msg_size are the locals of the functions,
\* out is what msgrcv copied to the caller's buffer
NoCall == [pc |-> "idle", op |-> "none", msgid |-> 0, type |-> 0, data |-> 0,
           size |-> 0, q |-> NULL, slot |-> 0, i |-> 0, j |-> 0, msg_size |-> 0,
           out |-> <<>>, rc |-> 0]

\* one statement of msgsnd by a task with locals l on the table s:
\* [s |-> the table after, l |-> the locals after]
snd_step(s, l) ==
    CASE l.pc = "snd_check" ->
           IF l.size > MAX_MESSAGE_SIZE
           THEN [s |-> s, l |-> [l EXCEPT !.pc = "done", !.rc = -1]]
           ELSE [s |-> s, l |-> [l EXCEPT !.pc = "snd_find"]]
      [] l.pc = "snd_find" ->
           IF find_queue(s.mq, l.msgid) = NULL
           THEN [s |-> s, l |-> [l EXCEPT !.pc = "done", !.rc = -1]]
           ELSE [s |-> s, l |-> [l EXCEPT !.pc = "snd_full",
                                          !.q = find_queue(s.mq, l.msgid)]]
      [] l.pc = "snd_full" ->
           IF s.mq[l.q].count >= s.mq[l.q].max_size
           THEN [s |-> s, l |-> [l EXCEPT !.pc = "done", !.rc = -1]]
           ELSE [s |-> s, l |-> [l EXCEPT !.pc = "snd_slot"]]
      \* message_t* slot = &queue->messages[queue->tail];
      [] l.pc = "snd_slot" ->
           [s |-> s, l |-> [l EXCEPT !.pc = "snd_copy", !.slot = s.mq[l.q].tail]]
      \* memcpy(slot, msg, sizeof(message_t));
      [] l.pc = "snd_copy" ->
           [s |-> [s EXCEPT !.mq[l.q].messages[l.slot] =
                              [ZeroMessage EXCEPT !.type = l.type, !.data = l.data]],
            l |-> [l EXCEPT !.pc = "snd_pid"]]
      [] l.pc = "snd_pid" ->
           [s |-> [s EXCEPT !.mq[l.q].messages[l.slot].sender_pid = caller_pid],
            l |-> [l EXCEPT !.pc = "snd_size"]]
      [] l.pc = "snd_size" ->
           [s |-> [s EXCEPT !.mq[l.q].messages[l.slot].size = l.size],
            l |-> [l EXCEPT !.pc = "snd_tail"]]
      \* queue->tail = (queue->tail + 1) % queue->max_size;
      [] l.pc = "snd_tail" ->
           [s |-> [s EXCEPT !.mq[l.q].tail = (@ + 1) % s.mq[l.q].max_size],
            l |-> [l EXCEPT !.pc = "snd_count"]]
      \* queue->count++; return 0;
      [] l.pc = "snd_count" ->
           [s |-> [s EXCEPT !.mq[l.q].count = Inc32(@)],
            l |-> [l EXCEPT !.pc = "done", !.rc = 0]]

\* one statement of msgrcv
rcv_step(s, l) ==
    CASE l.pc = "rcv_find" ->
           IF find_queue(s.mq, l.msgid) = NULL
           THEN [s |-> s, l |-> [l EXCEPT !.pc = "done", !.rc = -1]]
           ELSE [s |-> s, l |-> [l EXCEPT !.pc = "rcv_loop", !.i = 0,
                                          !.q = find_queue(s.mq, l.msgid)]]
      \* for (i = 0; i < queue->count; i++)
      [] l.pc = "rcv_loop" ->
           IF l.i < s.mq[l.q].count
           THEN [s |-> s, l |-> [l EXCEPT !.pc = "rcv_cand"]]
           ELSE [s |-> s, l |-> [l EXCEPT !.pc = "done", !.rc = -1]]
      \* candidate = &queue->messages[(head + i) % max_size]; the type test
      [] l.pc = "rcv_cand" ->
           IF \/ l.type = 0
              \/ s.mq[l.q].messages[(s.mq[l.q].head + l.i) % s.mq[l.q].max_size].type
                 = l.type
           THEN [s |-> s,
                 l |-> [l EXCEPT !.pc = "rcv_size",
                                 !.slot = (s.mq[l.q].head + l.i) % s.mq[l.q].max_size]]
           ELSE [s |-> s, l |-> [l EXCEPT !.pc = "rcv_loop", !.i = @ + 1]]
      \* uint32_t msg_size = candidate->size; if (msg_size > size) return -1;
      [] l.pc = "rcv_size" ->
           IF s.mq[l.q].messages[l.slot].size > l.size
           THEN [s |-> s, l |-> [l EXCEPT !.pc = "done", !.rc = -1,
                                          !.msg_size = s.mq[l.q].messages[l.slot].size]]
           ELSE [s |-> s, l |-> [l EXCEPT !.pc = "rcv_copy",
                                          !.msg_size = s.mq[l.q].messages[l.slot].size]]
      \* memcpy(msg, candidate, sizeof(message_t));
      [] l.pc = "rcv_copy" ->
           [s |-> s, l |-> [l EXCEPT !.pc = "rcv_shift", !.j = l.i,
                                     !.out = <<s.mq[l.q].messages[l.slot]>>]]
      \* for (j = i; j < queue->count - 1; j++) one memcpy
      [] l.pc = "rcv_shift" ->
           IF l.j < Dec32(s.mq[l.q].count)
           THEN [s |-> [s EXCEPT !.mq[l.q].messages[(s.mq[l.q].head + l.j)
                                                     % s.mq[l.q].max_size] =
                                    s.mq[l.q].messages[(s.mq[l.q].head + l.j + 1)
                                                       % s.mq[l.q].max_size]],
                 l |-> [l EXCEPT !.j = @ + 1]]
           ELSE [s |-> s, l |-> [l EXCEPT !.pc = "rcv_dec"]]
      \* queue->count--; return msg_size;
      [] l.pc = "rcv_dec" ->
           [s |-> [s EXCEPT !.mq[l.q].count = Dec32(@)],
            l |-> [l EXCEPT !.pc = "done", !.rc = l.msg_size]]

\* the whole call of a task, run without interruption on the table s
seq_call(s, l) ==
    IF l.op = "snd"
    THEN Pick({ [rc |-> r.rc, out |-> <<>>, s |-> r.s]
                : r \in {msgsnd(s, l.msgid,
                                <<[ZeroMessage EXCEPT !.type = l.type, !.data = l.data]>>,
                                l.size, 0)} })
    ELSE Pick({ [rc |-> r.rc, out |-> r.msg, s |-> r.s]
                : r \in {msgrcv(s, l.msgid, TRUE, l.size, l.type, 0)} })

\* ---------------------------------------------------------------- actions
\* the last operation and its result, with its arguments when it is a msgrcv;
\* data is the payload sent or received; prev is the payload of the send that
\* directly preceded the operation when that send was accepted, 0 otherwise
NoMsgOp == [op |-> "none", id |-> 0, type |-> 0, size |-> 0, rc |-> 0, data |-> 0,
            rtype |-> 0, prev |-> 0]

JustSent == IF msg_last.op = "snd" /\ msg_last.rc = 0 THEN msg_last.data ELSE 0

MsgCommit(s, entry) ==
    /\ message_queues' = s.mq
    /\ next_msgq_id' = s.nid
    /\ msg_last' = [entry EXCEPT !.prev = JustSent]
    /\ UNCHANGED <<race_task, race_start>>
    /\ UNCHANGED <<sched_vars, heap_vars, pool_vars, ring_vars>>

MsgInit ==
    \E s \in {ipc_init} :
       /\ message_queues = s.mq
       /\ next_msgq_id = s.nid
       /\ msg_sent = <<>>
       /\ msg_rcvd = <<>>
       /\ msg_last = NoMsgOp
       /\ race_task = [t \in RaceTasks |-> NoCall]
       /\ race_start = <<>>

Msgget ==
    \E key \in Keys, flags \in GetFlags :
       \E r \in {msgget(IpcState, key, flags)} :
          /\ r.s.nid <= MaxMsgqId + 1
          /\ MsgCommit(r.s, [NoMsgOp EXCEPT !.op = "get", !.rc = r.rc])
          /\ UNCHANGED <<msg_sent, msg_rcvd>>

\* the sender's payload is the serial number of the send
Msgsnd ==
    \E msgid \in MsgIds, type \in MsgTypes, size \in SendSizes, flags \in {0, IPC_NOWAIT} :
         LET m == [ZeroMessage EXCEPT !.type = type, !.data = Len(msg_sent) + 1]
         IN \E r \in {msgsnd(IpcState, msgid, <<m>>, size, flags)} :
               /\ r.rc = 0 => Len(msg_sent) < MaxSends
               /\ MsgCommit(r.s, [NoMsgOp EXCEPT
                                    !.op = "snd", !.rc = r.rc,
                                    !.data = IF r.rc = 0 THEN m.data ELSE 0])
               /\ msg_sent' = IF r.rc = 0
                              THEN Append(msg_sent, [id |-> msgid, type |-> type,
                                                     size |-> size, data |-> m.data])
                              ELSE msg_sent
               /\ UNCHANGED msg_rcvd

Msgrcv ==
    \E msgid \in MsgIds, type \in {0} \cup MsgTypes, size \in RcvSizes :
       \E r \in {msgrcv(IpcState, msgid, TRUE, size, type, 0)} :
          /\ MsgCommit(r.s, [NoMsgOp EXCEPT
                               !.op = "rcv", !.id = msgid, !.type = type,
                               !.size = size, !.rc = r.rc,
                               !.data = IF r.msg = <<>> THEN 0 ELSE r.msg[1].data,
                               !.rtype = IF r.msg = <<>> THEN 0 ELSE r.msg[1].type])
          /\ msg_rcvd' = IF r.msg = <<>> THEN msg_rcvd
                         ELSE Append(msg_rcvd, [id |-> msgid, filter |-> type,
                                                type |-> r.msg[1].type,
                                                size |-> r.msg[1].size,
                                                data |-> r.msg[1].data])
          /\ UNCHANGED msg_sent

Msgctl ==
    \E msgid \in MsgIds, cmd \in Cmds :
       \E r \in {msgctl(IpcState, msgid, cmd)} :
          /\ MsgCommit(r.s, [NoMsgOp EXCEPT !.op = "ctl", !.rc = r.rc])
          /\ UNCHANGED <<msg_sent, msg_rcvd>>

MsgNext ==
    \/ Msgget
    \/ Msgsnd
    \/ Msgrcv
    \/ Msgctl

\* a queue's life: one kind of message sent, any message received, between
\* msgget and msgctl
LifeSnd ==
    \E msgid \in MsgIds :
       \E m \in {[ZeroMessage EXCEPT !.type = 1, !.data = Len(msg_sent) + 1]} :
          \E r \in {msgsnd(IpcState, msgid, <<m>>, 8, 0)} :
             /\ r.rc = 0 => Len(msg_sent) < MaxSends
             /\ MsgCommit(r.s, [NoMsgOp EXCEPT !.op = "snd", !.rc = r.rc,
                                              !.data = IF r.rc = 0 THEN m.data ELSE 0])
             /\ msg_sent' = IF r.rc = 0
                            THEN Append(msg_sent, [id |-> msgid, type |-> 1,
                                                   size |-> 8, data |-> m.data])
                            ELSE msg_sent
             /\ UNCHANGED msg_rcvd

LifeRcv ==
    \E msgid \in MsgIds :
       \E r \in {msgrcv(IpcState, msgid, TRUE, MAX_MESSAGE_SIZE, 0, 0)} :
          /\ MsgCommit(r.s, [NoMsgOp EXCEPT
                               !.op = "rcv", !.id = msgid, !.size = MAX_MESSAGE_SIZE,
                               !.rc = r.rc,
                               !.data = IF r.msg = <<>> THEN 0 ELSE r.msg[1].data,
                               !.rtype = IF r.msg = <<>> THEN 0 ELSE r.msg[1].type])
          /\ msg_rcvd' = IF r.msg = <<>> THEN msg_rcvd
                         ELSE Append(msg_rcvd, [id |-> msgid, filter |-> 0,
                                                type |-> r.msg[1].type,
                                                size |-> r.msg[1].size,
                                                data |-> r.msg[1].data])
          /\ UNCHANGED msg_sent

LifeNext ==
    \/ Msgget
    \/ Msgctl
    \/ LifeSnd
    \/ LifeRcv

\* before the two tasks run: msgget creates the queue, and up to
\* MAX_QUEUE_SIZE - 1 messages are sent to it
RaceSetup ==
    /\ race_start = <<>>
    /\ \E fill \in 0 .. (MAX_QUEUE_SIZE - 1), type \in MsgTypes :
         \E g \in {msgget(IpcState, 1, IPC_CREAT + 438)} :
            \E s \in {IF fill = 0 THEN g.s
                       ELSE msgsnd(g.s, g.rc,
                                   <<[ZeroMessage EXCEPT !.type = type, !.data = 9]>>,
                                   8, 0).s} :
               /\ message_queues' = s.mq
               /\ next_msgq_id' = s.nid
               /\ race_start' = <<s>>
    /\ UNCHANGED race_task
    /\ UNCHANGED <<msg_sent, msg_rcvd, msg_last>>
    /\ UNCHANGED <<sched_vars, heap_vars, pool_vars, ring_vars>>

\* a task enters msgsnd, or task 2 enters msgrcv; a sender's payload is its
\* task number
RaceCall ==
    /\ race_start /= <<>>
    /\ \E t \in RaceTasks, op \in {"snd", "rcv"}, type \in MsgTypes :
         /\ race_task[t].pc = "idle"
         /\ op = "rcv" => t = 2
         /\ race_task' =
               [race_task EXCEPT ![t] =
                  [NoCall EXCEPT !.pc = IF op = "snd" THEN "snd_check" ELSE "rcv_find",
                                 !.op = op, !.msgid = 1, !.type = type,
                                 !.data = IF op = "snd" THEN t ELSE 0,
                                 !.size = IF op = "snd" THEN 8 ELSE MAX_MESSAGE_SIZE]]
    /\ UNCHANGED <<message_queues, next_msgq_id, race_start>>
    /\ UNCHANGED <<msg_sent, msg_rcvd, msg_last>>
    /\ UNCHANGED <<sched_vars, heap_vars, pool_vars, ring_vars>>

\* the running task executes its next statement of msgsnd
RaceSndStep ==
    /\ \E t \in RaceTasks :
         /\ race_task[t].op = "snd"
         /\ race_task[t].pc \notin {"idle", "done"}
         /\ \E r \in {snd_step(IpcState, race_task[t])} :
              /\ message_queues' = r.s.mq
              /\ next_msgq_id' = r.s.nid
              /\ race_task' = [race_task EXCEPT ![t] = r.l]
    /\ UNCHANGED race_start
    /\ UNCHANGED <<msg_sent, msg_rcvd, msg_last>>
    /\ UNCHANGED <<sched_vars, heap_vars, pool_vars, ring_vars>>

\* the running task executes its next statement of msgrcv
RaceRcvStep ==
    /\ \E t \in RaceTasks :
         /\ race_task[t].op = "rcv"
         /\ race_task[t].pc \notin {"idle", "done"}
         /\ \E r \in {rcv_step(IpcState, race_task[t])} :
              /\ message_queues' = r.s.mq
              /\ next_msgq_id' = r.s.nid
              /\ race_task' = [race_task EXCEPT ![t] = r.l]
    /\ UNCHANGED race_start
    /\ UNCHANGED <<msg_sent, msg_rcvd, msg_last>>
    /\ UNCHANGED <<sched_vars, heap_vars, pool_vars, ring_vars>>

RaceNext ==
    \/ RaceSetup
    \/ RaceCall
    \/ RaceSndStep
    \/ RaceRcvStep

\* ========================================================== ring buffer
\* ---------------------------------------------------------------- bounds
\* the largest size asked of ringbuf_init
MaxRingSize == 3
\* number of elements the producer offers
MaxPushes == 5

\* what kmalloc'd memory may hold before it is written
Garbage == {0, 1}

\* A uint32_t that may exceed what the checker's integers hold is kept as
\* two 16-bit halves, [hi, lo].
\* while (power_of_two < size) power_of_two <<= 1;   for size >= 1.  The
\* shift drops the top bit: once power_of_two has become 0 the test stays
\* true and the loop has no exit; the result 0 stands for that.
RECURSIVE round_up_pow2(_, _)
round_up_pow2(power_of_two, size) ==
    IF power_of_two.hi = 0 /\ power_of_two.lo = 0 THEN power_of_two
    ELSE IF \/ power_of_two.hi < size.hi
            \/ power_of_two.hi = size.hi /\ power_of_two.lo < size.lo
    THEN round_up_pow2([hi |-> (2 * power_of_two.hi + power_of_two.lo \div 32768) % 65536,
                        lo |-> (2 * power_of_two.lo) % 65536], size)
    ELSE power_of_two

\* the lockfree_ringbuf_t before ringbuf_init: nothing uses it
NoRing == [size |-> 0, mask |-> 0, element_size |-> 0, head |-> 0, tail |-> 0,
           buffer |-> <<>>]

\* ringbuf_init; size is given in halves, buffer is the memory kmalloc
\* returns when it is called, <<>> for a failed allocation.  returns is FALSE
\* when the rounding loop never ends, allocates tells whether kmalloc is
\* called; size and mask are the fields written, in halves
ringbuf_init(size, element_size, buffer) ==
    IF (size.hi = 0 /\ size.lo = 0) \/ element_size = 0
    THEN [returns |-> TRUE, rc |-> -1, allocates |-> FALSE]
    ELSE Pick({
        IF power_of_two.hi = 0 /\ power_of_two.lo = 0
        THEN [returns |-> FALSE, rc |-> 0, allocates |-> FALSE]
        ELSE IF buffer = <<>>
        THEN [returns |-> TRUE, rc |-> -1, allocates |-> TRUE]
        ELSE [returns |-> TRUE, rc |-> 0, allocates |-> TRUE,
              size |-> power_of_two,
              mask |-> IF power_of_two.lo > 0
                       THEN [hi |-> power_of_two.hi, lo |-> power_of_two.lo - 1]
                       ELSE [hi |-> power_of_two.hi - 1, lo |-> 65535],
              element_size |-> element_size, head |-> 0, tail |-> 0,
              buffer |-> buffer]
        : power_of_two \in {round_up_pow2([hi |-> 0, lo |-> 1], size)} })

\* (rb->tail - rb->head) & rb->mask: the mask is a power of two less one, so
\* the unsigned difference and-ed with it is the difference modulo mask + 1
ringbuf_count(r) == (r.tail - r.head) % (r.mask + 1)

\* a producer that never finds the ring full
ring_never_full(next_tail, head) == FALSE

\* if (next_tail == head) return -1;
ring_full(next_tail, head) == next_tail = head

\* a consumer that never finds the ring empty
ring_never_empty(head, tail) == FALSE

\* if (head == tail) return -1;
ring_empty(head, tail) == head = tail

RingInit ==
    /\ rb = NoRing
    /\ p_pc = "idle" /\ p_head = 0 /\ p_tail = 0 /\ p_next_tail = 0 /\ p_data = 0
    /\ c_pc = "idle" /\ c_head = 0 /\ c_tail = 0 /\ c_data = 0
    /\ pushed = <<>>
    /\ popped = <<>>

RingFrame == UNCHANGED <<sched_vars, heap_vars, pool_vars, msg_vars>>

\* ringbuf_init before the producer and the consumer start; a failed call
\* leaves the ring unused
RingbufInit ==
    /\ rb = NoRing
    /\ \E size \in 0 .. MaxRingSize :
          \E buffer \in [0 .. (round_up_pow2([hi |-> 0, lo |-> 1],
                                              [hi |-> 0, lo |-> size]).lo - 1) -> Garbage]
                         \cup {<<>>} :
             \E r \in {ringbuf_init([hi |-> 0, lo |-> size], 1, buffer)} :
                rb' = IF r.rc = 0
                      THEN [size |-> r.size.lo, mask |-> r.mask.lo,
                            element_size |-> r.element_size, head |-> r.head,
                            tail |-> r.tail, buffer |-> r.buffer]
                      ELSE NoRing
    /\ UNCHANGED <<p_pc, p_head, p_tail, p_next_tail, p_data, c_pc, c_head, c_tail,
                   c_data, pushed, popped>>
    /\ RingFrame

\* ringbuf_push, one action per statement that touches the ring
\* uint32_t head = rb->head;   (the call offers the next element of the stream)
PushReadHead ==
    /\ rb /= NoRing
    /\ p_pc = "idle" /\ Len(pushed) < MaxPushes
    /\ p_data' = Len(pushed) + 1
    /\ p_head' = rb.head
    /\ p_pc' = "read_tail"
    /\ UNCHANGED <<rb, p_tail, p_next_tail, c_pc, c_head, c_tail, c_data, pushed, popped>>
    /\ RingFrame

\* uint32_t tail = rb->tail; uint32_t next_tail = (tail + 1) & rb->mask;
PushReadTail ==
    /\ p_pc = "read_tail"
    /\ p_tail' = rb.tail
    /\ p_next_tail' = And(rb.tail + 1, rb.mask)
    /\ p_pc' = "check"
    /\ UNCHANGED <<rb, p_head, p_data, c_pc, c_head, c_tail, c_data, pushed, popped>>
    /\ RingFrame

\* if (next_tail == head) return -1;
PushCheck ==
    /\ p_pc = "check"
    /\ p_pc' = IF ring_full(p_next_tail, p_head) THEN "idle" ELSE "copy"
    /\ UNCHANGED <<rb, p_head, p_tail, p_next_tail, p_data, c_pc, c_head, c_tail, c_data,
                   pushed, popped>>
    /\ RingFrame

\* a producer that goes on to publish without writing the slot
PushCopySkipped ==
    /\ p_pc = "copy"
    /\ p_pc' = "publish"
    /\ UNCHANGED <<rb, p_head, p_tail, p_next_tail, p_data, c_pc, c_head, c_tail, c_data,
                   pushed, popped>>
    /\ RingFrame

\* memcpy(rb->buffer + tail * element_size, data, element_size);
PushCopy ==
    /\ p_pc = "copy"
    /\ rb' = [rb EXCEPT !.buffer[p_tail] = p_data]
    /\ p_pc' = "publish"
    /\ UNCHANGED <<p_head, p_tail, p_next_tail, p_data, c_pc, c_head, c_tail, c_data,
                   pushed, popped>>
    /\ RingFrame

\* rb->tail = next_tail; return 0;
PushPublish ==
    /\ p_pc = "publish"
    /\ rb' = [rb EXCEPT !.tail = p_next_tail]
    /\ pushed' = Append(pushed, p_data)
    /\ p_pc' = "idle"
    /\ UNCHANGED <<p_head, p_tail, p_next_tail, p_data, c_pc, c_head, c_tail, c_data,
                   popped>>
    /\ RingFrame

\* ringbuf_pop, one action per statement that touches the ring
\* uint32_t head = rb->head;
PopReadHead ==
    /\ rb /= NoRing
    /\ c_pc = "idle"
    /\ c_head' = rb.head
    /\ c_pc' = "read_tail"
    /\ UNCHANGED <<rb, p_pc, p_head, p_tail, p_next_tail, p_data, c_tail, c_data, pushed,
                   popped>>
    /\ RingFrame

\* uint32_t tail = rb->tail;
PopReadTail ==
    /\ c_pc = "read_tail"
    /\ c_tail' = rb.tail
    /\ c_pc' = "check"
    /\ UNCHANGED <<rb, p_pc, p_head, p_tail, p_next_tail, p_data, c_head, c_data, pushed,
                   popped>>
    /\ RingFrame

\* if (head == tail) return -1;
PopCheck ==
    /\ c_pc = "check"
    /\ c_pc' = IF ring_empty(c_head, c_tail) THEN "idle" ELSE "copy"
    /\ UNCHANGED <<rb, p_pc, p_head, p_tail, p_next_tail, p_data, c_head, c_tail, c_data,
                   pushed, popped>>
    /\ RingFrame

\* memcpy(data, rb->buffer + head * element_size, element_size);
PopCopy ==
    /\ c_pc = "copy"
    /\ c_data' = rb.buffer[c_head]
    /\ c_pc' = "publish"
    /\ UNCHANGED <<rb, p_pc, p_head, p_tail, p_next_tail, p_data, c_head, c_tail, pushed,
                   popped>>
    /\ RingFrame

\* rb->head = (head + 1) & rb->mask; return 0;
PopPublish ==
    /\ c_pc = "publish"
    /\ rb' = [rb EXCEPT !.head = And(c_head + 1, rb.mask)]
    /\ popped' = Append(popped, c_data)
    /\ c_pc' = "idle"
    /\ UNCHANGED <<p_pc, p_head, p_tail, p_next_tail, p_data, c_head, c_tail, c_data,
                   pushed>>
    /\ RingFrame

RingNext ==
    \/ RingbufInit
    \/ PushReadHead
    \/ PushReadTail
    \/ PushCheck
    \/ PushCopy
    \/ PushPublish
    \/ PopReadHead
    \/ PopReadTail
    \/ PopCheck
    \/ PopCopy
    \/ PopPublish

\* ======================================================= specifications
Init == SchedInit /\ HeapInit /\ PoolInit /\ MsgInit /\ RingInit

SpecSched == Init /\ [][SchedNext]_vars

SpecHeap == Init /\ [][HeapNext]_vars

SpecMsg == Init /\ [][MsgNext]_vars

SpecRing == Init /\ [][RingNext]_vars

SpecMsgRace == Init /\ [][RaceNext]_vars

SpecMsgLife == Init /\ [][LifeNext]_vars

SpecRR == Init /\ [][RRNext]_vars

SpecFamily == Init /\ [][FamNext]_vars

SpecPool == Init /\ [][PoolNext]_vars

SpecWait == Init /\ [][WaitNext]_vars

\* the timer interrupt keeps arriving
SpecWaitLive == SpecWait /\ WF_vars(WaitTick)

Next == SchedNext \/ RRNext \/ FamNext \/ WaitNext \/ HeapNext \/ PoolNext \/ MsgNext \/ LifeNext \/ RaceNext \/ RingNext

Spec == Init /\ [][Next]_vars

\* ------------------------------------------------ scheduler: observations
\* the tasks reachable from p through next links
RECURSIVE Chain(_, _)
Chain(p, seen) ==
    IF p = NULL \/ p \in seen THEN seen
    ELSE Chain(process_table[p].next, seen \cup {p})

Queues == Priorities \cup {QBLOCKED, QTERMINATED}

\* the tasks linked in queue qi: those reachable from its head
Linked(qi) == Chain(GetQ(SchedState, qi).head, {})

State(p) == process_table[p].state

InUse == {p \in Slots : process_table_used[p]}

\* ------------------------------------------------------ scheduler: claims

\* C1: in every reachable scheduler state exactly one task is Running, it is
\* the task current_process refers to, it is linked in no ready queue, and
\* when no other task is runnable it is the idle task.
C1_OneRunningIsCurrent ==
    /\ Cardinality({p \in InUse : State(p) = PROCESS_RUNNING}) = 1
    /\ current_process /= NULL
    /\ State(current_process) = PROCESS_RUNNING
    /\ \A qi \in Priorities : current_process \notin Linked(qi)
    /\ (\A p \in InUse \ {idle_process} :
            State(p) \notin {PROCESS_READY, PROCESS_RUNNING})
         => current_process = idle_process

\* C2: after every scheduler_tick returns no Ready task has a numerically
\* lower priority value than the current task.
C2_TickRunsHighestPriority ==
    last_op.op = "tick" =>
       \A p \in InUse :
          State(p) = PROCESS_READY =>
             process_table[p].priority >= process_table[current_process].priority

\* C7: for each ready queue, the blocked queue and the terminated queue, count
\* is the number of tasks reachable from head through next links, head->prev
\* and tail->next are null, and count has not wrapped below zero.
C7_QueuesWellFormed ==
    \A qi \in Queues :
       LET Q == GetQ(SchedState, qi)
       IN /\ Q.count = Cardinality(Linked(qi))
          /\ Q.head /= NULL => process_table[Q.head].prev = NULL
          /\ Q.tail /= NULL => process_table[Q.tail].next = NULL
          /\ Q.count >= 0

\* C8: each task made by process_create after process_init is linked into at
\* most one of the seven queues, and that queue matches its state: Ready in
\* ready[priority], Blocked in the blocked queue, Terminated in the terminated
\* queue.
C8_OneQueueMatchingState ==
    \A p \in InUse \ {idle_process} :
       /\ Cardinality({qi \in Queues : p \in Linked(qi)}) <= 1
       /\ State(p) = PROCESS_READY => p \in Linked(process_table[p].priority)
       /\ State(p) = PROCESS_BLOCKED => p \in Linked(QBLOCKED)
       /\ State(p) = PROCESS_TERMINATED => p \in Linked(QTERMINATED)

\* C9: after scheduler_yield called by a Running task returns, the caller is
\* either the Running current task, or Ready, linked in ready[priority] and
\* with remaining_slice refreshed to time_slice.
C9_YieldKeepsCallerSchedulable ==
    (last_op.op = "yield" /\ last_op.caller_state = PROCESS_RUNNING) =>
       LET c == last_op.caller
       IN \/ current_process = c /\ State(c) = PROCESS_RUNNING
          \/ /\ State(c) = PROCESS_READY
             /\ c \in Linked(process_table[c].priority)
             /\ process_table[c].remaining_slice = process_table[c].time_slice

\* C10: a task on which process_exit or process_kill has acted is Terminated
\* with the exit code recorded, is on the terminated queue, and is never picked
\* to run again.
C10_ExitedStaysTerminated ==
    /\ \A p \in exited :
          /\ State(p) = PROCESS_TERMINATED
          /\ p \in Linked(QTERMINATED)
          /\ p /= current_process
    /\ last_op.op = "exit" => process_table[last_op.p].exit_code = last_op.arg
    /\ (last_op.op = "kill" /\ last_op.rc = 0) =>
          process_table[last_op.p].exit_code = 0 - SIGKILL

\* ----------------------------------------------------------- heap: claims
\* the block best fit selects from a block list: the smallest free block of at
\* least req bytes, the first such in list order; 0 when there is none
BestFitIndex(blocks, req) ==
    LET cand == {i \in DOMAIN blocks : blocks[i].free /= 0 /\ blocks[i].size >= req}
    IN IF cand = {} THEN 0
       ELSE CHOOSE i \in cand :
               \A j \in cand : \/ blocks[i].size < blocks[j].size
                               \/ blocks[i].size = blocks[j].size /\ i <= j

LastHeapOp == heap_log[Len(heap_log)]

\* C3: kmalloc returns the payload of the smallest free block whose size is at
\* least the request rounded up to 8 (the first in list order on ties) and
\* splits it when its size exceeds request + header + 16; and after
\* a = alloc(100), b = alloc(200), c = alloc(300), free(b), the call alloc(150)
\* returns b's address.
C3_BestFitReuse ==
    /\ (Len(heap_log) > 0 /\ LastHeapOp.op = "alloc") =>
          LET req == Align8(LastHeapOp.arg)
              i == BestFitIndex(heap_before, req)
          IN IF i = 0 THEN LastHeapOp.ret = NULL
             ELSE LET b == heap_before[i]
                  IN /\ LastHeapOp.ret = b.addr + sizeof_mem_block_t
                     /\ heap_mem[b.addr].free = 0
                     /\ IF b.size > req + sizeof_mem_block_t + SPLIT_SLACK
                        THEN /\ heap_mem[b.addr].size = req
                             /\ heap_mem[heap_mem[b.addr].next].free /= 0
                             /\ heap_mem[heap_mem[b.addr].next].size =
                                   b.size - req - sizeof_mem_block_t
                        ELSE heap_mem[b.addr].size = b.size
    /\ (/\ Len(heap_log) = 5
        /\ heap_log[1].op = "alloc" /\ heap_log[1].arg = 100
        /\ heap_log[2].op = "alloc" /\ heap_log[2].arg = 200
        /\ heap_log[3].op = "alloc" /\ heap_log[3].arg = 300
        /\ heap_log[4].op = "free" /\ heap_log[4].arg = heap_log[2].ret
        /\ heap_log[5].op = "alloc" /\ heap_log[5].arg = 150)
         => heap_log[5].ret = heap_log[2].ret

\* the block list now
Blocks == BlockList(heap_mem, heap_start, MaxHeapOps + 1)

\* C18: used_memory + free_memory equals the heap size less one header for
\* every block in the block list.
C18_StatsAccountForHeaders ==
    heap_stats.used_memory + heap_stats.free_memory =
       KERNEL_HEAP_SIZE - Len(Blocks) * sizeof_mem_block_t

\* the pointers kmalloc returned that no later kfree was given
Outstanding ==
    {heap_log[i].ret :
       i \in {j \in DOMAIN heap_log :
                /\ heap_log[j].op = "alloc" /\ heap_log[j].ret /= NULL
                /\ ~\E k \in DOMAIN heap_log :
                      /\ k > j /\ heap_log[k].op = "free"
                      /\ heap_log[k].arg = heap_log[j].ret}}

\* C19: once every pointer kmalloc returned has been freed, used_memory and
\* active_allocations are 0, the block list is one free block of the heap
\* size less one header, and get_heap_stats reports that size as
\* largest_free_block.
C19_SteadyState ==
    (Returned /= {} /\ Outstanding = {}) =>
       /\ heap_stats.used_memory = 0
       /\ heap_stats.active_allocations = 0
       /\ Len(Blocks) = 1
       /\ Blocks[1].free /= 0
       /\ Blocks[1].size = KERNEL_HEAP_SIZE - sizeof_mem_block_t
       /\ get_heap_stats(HeapState).stats.largest_free_block =
             KERNEL_HEAP_SIZE - sizeof_mem_block_t

\* the block kfree was last called on, as an index into the list before the
\* call; 0 when the call was not on an allocated block of the list
FreedIndex ==
    LET K == {k \in DOMAIN heap_before :
                /\ heap_before[k].addr = LastHeapOp.arg - sizeof_mem_block_t
                /\ heap_before[k].free = 0}
    IN IF K = {} THEN 0 ELSE CHOOSE k \in K : TRUE

\* the first and the last block, in the list before the call, of the run of
\* blocks that kfree of block k merges: k and its free neighbours
MergeLo(k) == IF k > 1 /\ heap_before[k - 1].free /= 0 THEN k - 1 ELSE k

MergeHi(k) ==
    IF k < Len(heap_before) /\ heap_before[k + 1].free /= 0 THEN k + 1 ELSE k

\* C20: after every kmalloc and kfree the block list starts at the heap start
\* and ends at the heap end, each block's successor starts at block + header
\* + size and points back to it, every size is a multiple of 8 and no two
\* adjacent blocks are both free; and a kfree of an allocated block replaces
\* it and its free neighbours by one free block spanning them, counting one
\* coalesce per neighbour merged, while any other kfree leaves the list as it
\* was.
C20_BlockListWellFormed ==
    /\ Len(Blocks) >= 1
    /\ Blocks[1].addr = KERNEL_HEAP_START
    /\ heap_mem[Blocks[1].addr].prev = NULL
    /\ heap_mem[Blocks[Len(Blocks)].addr].next = NULL
    /\ Blocks[Len(Blocks)].addr + sizeof_mem_block_t + Blocks[Len(Blocks)].size =
          KERNEL_HEAP_START + KERNEL_HEAP_SIZE
    /\ \A i \in DOMAIN Blocks : Blocks[i].size % 8 = 0
    /\ \A i \in 1 .. (Len(Blocks) - 1) :
          /\ Blocks[i + 1].addr = Blocks[i].addr + sizeof_mem_block_t + Blocks[i].size
          /\ heap_mem[Blocks[i + 1].addr].prev = Blocks[i].addr
          /\ ~(Blocks[i].free /= 0 /\ Blocks[i + 1].free /= 0)
    /\ (Len(heap_log) > 0 /\ LastHeapOp.op = "free") =>
          IF FreedIndex = 0 THEN Blocks = heap_before
          ELSE LET lo == MergeLo(FreedIndex)
                   hi == MergeHi(FreedIndex)
               IN /\ Blocks =
                        SubSeq(heap_before, 1, lo - 1)
                        \o <<[addr |-> heap_before[lo].addr,
                              size |-> heap_before[hi].addr + heap_before[hi].size
                                       - heap_before[lo].addr,
                              free |-> 1]>>
                        \o SubSeq(heap_before, hi + 1, Len(heap_before))
                  /\ heap_stats.coalesce_operations =
                        heap_stats_before.coalesce_operations + (hi - lo)

\* the last kfree merged the block with a free block on each side
C20_Witness ==
    /\ Len(heap_log) > 0 /\ LastHeapOp.op = "free"
    /\ FreedIndex /= 0
    /\ MergeHi(FreedIndex) - MergeLo(FreedIndex) = 2
    /\ heap_stats.coalesce_operations = heap_stats_before.coalesce_operations + 2

\* the statistics that only kmalloc and kfree write
Counters(stats) ==
    [used_memory |-> stats.used_memory, free_memory |-> stats.free_memory,
     total_allocations |-> stats.total_allocations,
     active_allocations |-> stats.active_allocations,
     failed_allocations |-> stats.failed_allocations,
     free_operations |-> stats.free_operations,
     coalesce_operations |-> stats.coalesce_operations]

\* C21: a kfree of a pointer whose block header does not carry
\* MEMORY_GUARD_MAGIC, a second kfree of one pointer in particular, writes its
\* diagnostic and leaves every block header and link, the tracking table and
\* the statistics as they were before the call.
C21_BadFreeChangesNothing ==
    (/\ Len(heap_log) > 0 /\ LastHeapOp.op = "free"
     /\ heap_prev.mem[LastHeapOp.arg - sizeof_mem_block_t].magic /= MEMORY_GUARD_MAGIC)
      => /\ LastHeapOp.diag = "corruption"
         /\ heap_mem = heap_prev.mem
         /\ heap_start = heap_prev.start
         /\ allocations = heap_prev.allocs
         /\ next_alloc_id = heap_prev.nid
         /\ Counters(heap_stats) = Counters(heap_prev.stats)

\* the last call is the second kfree of a pointer, after a first one that
\* freed its block
C21_Witness ==
    /\ Len(heap_log) >= 3 /\ LastHeapOp.op = "free"
    /\ LastHeapOp.diag = "corruption"
    /\ \E k \in 1 .. (Len(heap_log) - 1) :
          /\ heap_log[k].op = "free" /\ heap_log[k].arg = LastHeapOp.arg
          /\ heap_log[k].diag = "none"

\* what detect_memory_leaks reports: the tracking entries with a pointer
Leaks ==
    {[ptr |-> allocations[i].ptr, size |-> allocations[i].size] :
       i \in {j \in TrackSlots : allocations[j].ptr /= NULL}}

\* the allocated blocks of the block list, by payload pointer and size
UsedBlocks ==
    {[ptr |-> Blocks[i].addr + sizeof_mem_block_t, size |-> Blocks[i].size] :
       i \in {j \in DOMAIN Blocks : Blocks[j].free = 0}}

\* C22: the tracking entries with a non-null pointer are exactly the
\* allocated blocks of the heap, with their sizes; and after three
\* allocations and a free of the second, the leak scan reports exactly the
\* first and the third.
C22_TrackingMatchesUsedBlocks ==
    /\ Leaks = UsedBlocks
    /\ (/\ Len(heap_log) = 4
        /\ \A k \in 1 .. 3 : heap_log[k].op = "alloc" /\ heap_log[k].ret /= NULL
        /\ heap_log[4].op = "free" /\ heap_log[4].arg = heap_log[2].ret)
         => {l.ptr : l \in Leaks} = {heap_log[1].ret, heap_log[3].ret}

\* C23: when kmalloc of a nonzero size returns NULL, failed_allocations is one
\* more than before the call and no block header, tracking entry or other
\* statistic has changed.
C23_FailedAllocCounted ==
    (/\ Len(heap_log) > 0 /\ LastHeapOp.op = "alloc"
     /\ LastHeapOp.arg /= 0 /\ LastHeapOp.ret = NULL)
      => /\ heap_stats.failed_allocations = heap_prev.stats.failed_allocations + 1
         /\ heap_mem = heap_prev.mem
         /\ allocations = heap_prev.allocs
         /\ next_alloc_id = heap_prev.nid
         /\ [Counters(heap_stats) EXCEPT !.failed_allocations = 0] =
               [Counters(heap_prev.stats) EXCEPT !.failed_allocations = 0]

\* -------------------------------------------------- memory pools: claims
\* C24: for a pool, the number of blocks whose bit is set, and the free_blocks
\* counter, plus the number of outstanding allocations is block_count; every
\* outstanding pointer is pool_start + i * block_size for an i below
\* block_count; and no two outstanding allocations have the same address.
C24_PoolConservation ==
    pool /= NoPool =>
       /\ Cardinality(free_indices(pool)) + Len(pool_out) = pool.block_count
       /\ pool.free_blocks + Len(pool_out) = pool.block_count
       /\ \A k \in DOMAIN pool_out :
             \E i \in 0 .. (pool.block_count - 1) :
                pool_out[k] = pool.pool_start + i * pool.block_size
       /\ \A k, l \in DOMAIN pool_out : k /= l => pool_out[k] /= pool_out[l]

\* C40: pool_free of a pointer whose block is already free leaves the pool
\* unchanged; free_blocks never exceeds block_count and equals the number of
\* set bits among the first block_count bits; and pool_alloc returns null
\* only when every block is outstanding.
C40_FreeOfFreeBlockIsNoOp ==
    pool /= NoPool =>
       /\ \A i \in free_indices(pool) :
             pool_free(pool, pool.pool_start + i * pool.block_size) = pool
       /\ pool.free_blocks <= pool.block_count
       /\ pool.free_blocks = Cardinality(free_indices(pool))
       /\ pool_alloc(pool).ptr = NULL => free_indices(pool) = {}

\* the allocated blocks of the block list before the last heap operation
UsedBlocksBefore ==
    {heap_before[i].addr : i \in {j \in DOMAIN heap_before : heap_before[j].free = 0}}

\* C25: when create_memory_pool has failed, active_allocations and the
\* allocated blocks of the heap are what they were before the call; and a
\* process_create whose stack allocation fails returns NULL with the set of
\* used process-table slots what it was before the call.
C25_FailedCreationLeavesNothing ==
    /\ (pool_last.op = "create" /\ pool_last.ret = NULL) =>
          /\ heap_stats.active_allocations = heap_prev.stats.active_allocations
          /\ {u.ptr - sizeof_mem_block_t : u \in UsedBlocks} = UsedBlocksBefore
          /\ {a.ptr : a \in Leaks} =
                {heap_prev.allocs[i].ptr : i \in TrackSlots} \ {NULL}
    /\ \A priority \in TaskPriorities :
          \A c \in {process_create(SchedState, priority, FALSE)} :
             /\ c.p = NULL
             /\ c.s.used = process_table_used

\* create_memory_pool has failed at its third allocation, after freeing the
\* slab and the pool header, and a process_create has failed as well
C25_Witness ==
    /\ pool_last.op = "create" /\ pool_last.ret = NULL
    /\ heap_stats.free_operations = heap_prev.stats.free_operations + 2
    /\ last_op.op = "create" /\ last_op.p = NULL

\* ------------------------------------------------- message queues: claims
\* the receives with filter t on queue id, and the sends of type t to it
RcvdBy(id, t) ==
    LET Test(r) == r.id = id /\ r.filter = t IN SelectSeq(msg_rcvd, Test)

SentTo(id, t) ==
    LET Test(m) == m.id = id /\ m.type = t IN SelectSeq(msg_sent, Test)

\* C4: on one queue, the receives with filter t return the messages of type t
\* that were sent, in the order they were sent, each at most once and with the
\* payload and size that were sent.
C4_SameTypeFifo ==
    \A id \in MsgIds, t \in MsgTypes :
       LET R == RcvdBy(id, t)
           S == SentTo(id, t)
       IN /\ \A k \in DOMAIN R :
                \E i \in DOMAIN S : /\ S[i].data = R[k].data
                                    /\ S[i].size = R[k].size
                                    /\ R[k].type = t
          /\ \A k, l \in DOMAIN R : k < l => R[k].data < R[l].data

\* C5: a msgsnd that succeeds followed directly by a msgrcv on the same queue,
\* with room for the message and a filter that matches it and no message
\* queued earlier, returns the message just sent.
C5_SendThenReceive ==
    LET rcv == msg_last
        snd == msg_sent[rcv.prev]
        before == Len(msg_rcvd) - (IF rcv.rc = -1 THEN 0 ELSE 1)
    IN (/\ rcv.op = "rcv" /\ rcv.prev /= 0
        /\ rcv.id = snd.id
        /\ rcv.type = 0 \/ rcv.type = snd.type
        /\ rcv.size >= snd.size
        /\ \A i \in DOMAIN msg_sent :
              (/\ msg_sent[i].id = snd.id
               /\ msg_sent[i].data < snd.data
               /\ rcv.type = 0 \/ rcv.type = msg_sent[i].type)
                 => \E k \in 1 .. before : msg_rcvd[k].data = msg_sent[i].data)
         => /\ rcv.rc = snd.size
            /\ rcv.data = snd.data
            /\ rcv.rtype = snd.type

\* the messages accepted for queue id and not received since, oldest first
Queued(id) ==
    LET Got == {msg_rcvd[k].data : k \in DOMAIN msg_rcvd}
        Test(m) == m.id = id /\ m.data \notin Got
    IN SelectSeq(msg_sent, Test)

\* the members of Q a receive with filter t may return
Matching(Q, t) ==
    LET Test(m) == t = 0 \/ m.type = t IN SelectSeq(Q, Test)

\* the payloads a queue record stores, from head up to count
Stored(Q) ==
    [k \in 1 .. Q.count |-> Q.messages[(Q.head + k - 1) % MAX_QUEUE_SIZE].data]

\* the payloads of Q without the message m
Without(Q, m) ==
    LET Test(x) == x.data /= m.data
        Rest == SelectSeq(Q, Test)
    IN [k \in DOMAIN Rest |-> Rest[k].data]

\* C27: msgrcv with filter t returns the queued message nearest to head whose
\* type is t (any message when t is 0), decrements count by one and leaves
\* the other queued messages in their order.
C27_ReceiveFirstMatch ==
    \A id \in MsgIds, t \in {0} \cup MsgTypes :
       \A r \in {msgrcv(IpcState, id, TRUE, MAX_MESSAGE_SIZE, t, 0)} :
          \A q \in {find_queue(message_queues, id)} \ {NULL} :
             \A M \in {Matching(Queued(id), t)} \ {<<>>} :
                /\ r.rc = M[1].size
                /\ r.msg /= <<>>
                /\ r.msg[1].data = M[1].data
                /\ r.msg[1].type = M[1].type
                /\ r.s.mq[q].count = message_queues[q].count - 1
                /\ Stored(r.s.mq[q]) = Without(Queued(id), M[1])

\* C28: msgsnd fails when the size exceeds MAX_MESSAGE_SIZE, the id is
\* unknown or the queue is full, with or without IPC_NOWAIT; msgrcv fails
\* when no queued message matches the filter or the first match is larger
\* than the caller's buffer; a failed call leaves the table as it was, and no
\* task is blocked.
C28_FailedCallsHaveNoEffect ==
    /\ \A id \in MsgIds, size \in SendSizes, flags \in {0, IPC_NOWAIT} :
          \A r \in {msgsnd(IpcState, id, <<[ZeroMessage EXCEPT !.type = 1]>>,
                           size, flags)} :
             /\ (\/ size > MAX_MESSAGE_SIZE
                 \/ find_queue(message_queues, id) = NULL
                 \/ \E q \in {find_queue(message_queues, id)} \ {NULL} :
                       message_queues[q].count >= MAX_QUEUE_SIZE) => r.rc = -1
             /\ r.rc = -1 => r.s = IpcState
    /\ \A id \in MsgIds, t \in {0} \cup MsgTypes, size \in RcvSizes :
          \A r \in {msgrcv(IpcState, id, TRUE, size, t, 0)} :
             /\ (\/ find_queue(message_queues, id) = NULL
                 \/ Matching(Queued(id), t) = <<>>
                 \/ \E M \in {Matching(Queued(id), t)} \ {<<>>} : M[1].size > size)
                   => r.rc = -1
             /\ r.rc = -1 => r.s = IpcState
    /\ \A p \in Slots : process_table[p].state /= PROCESS_BLOCKED

\* C39: in every in-use queue tail is (head + count) mod max_size, and the
\* count slots from head hold the accepted, not yet received messages in the
\* order they were sent.
C39_TailFollowsCount ==
    \A q \in {i \in QueueSlots : message_queues[i].in_use /= 0} :
       /\ message_queues[q].tail =
             (message_queues[q].head + message_queues[q].count) % message_queues[q].max_size
       /\ Stored(message_queues[q]) =
             [k \in DOMAIN Queued(message_queues[q].id) |->
                Queued(message_queues[q].id)[k].data]

\* the slots of a table that hold a queue
QueuesInUse(s) == {i \in QueueSlots : s.mq[i].in_use /= 0}

\* C29: msgget returns the id of the in-use queue with the key when there is
\* one, and changes nothing, so a repeated call returns the same id and no
\* two in-use queues have one key; otherwise with IPC_CREAT and a free slot
\* it claims a free slot with count 0, capacity MAX_QUEUE_SIZE, permissions
\* flags & 0777 and an id that no in-use queue has; otherwise it returns -1
\* and changes nothing.
C29_MsggetFindsOrCreates ==
    /\ \A i, j \in QueuesInUse(IpcState) :
          i /= j => /\ message_queues[i].key /= message_queues[j].key
                    /\ message_queues[i].id /= message_queues[j].id
    /\ \A key \in Keys \cup {3}, flags \in GetFlags :
          \A r \in {msgget(IpcState, key, flags)} :
             IF \E i \in QueuesInUse(IpcState) : message_queues[i].key = key
             THEN /\ \E i \in QueuesInUse(IpcState) :
                        message_queues[i].key = key /\ r.rc = message_queues[i].id
                  /\ r.s = IpcState
             ELSE IF And(flags, IPC_CREAT) /= 0 /\ QueuesInUse(IpcState) /= QueueSlots
             THEN /\ \E i \in QueueSlots \ QueuesInUse(IpcState) :
                        /\ r.s.mq[i].in_use /= 0
                        /\ r.s.mq[i].id = r.rc
                        /\ r.s.mq[i].key = key
                        /\ r.s.mq[i].count = 0
                        /\ r.s.mq[i].max_size = MAX_QUEUE_SIZE
                        /\ r.s.mq[i].permissions = flags % 512
                        /\ \A j \in QueueSlots \ {i} : r.s.mq[j] = message_queues[j]
                  /\ r.rc /= -1
                  /\ \A j \in QueuesInUse(IpcState) : message_queues[j].id /= r.rc
                  /\ \A again \in GetFlags : msgget(r.s, key, again).rc = r.rc
             ELSE r.rc = -1 /\ r.s = IpcState

\* msgget has just created a second queue in the slot of a removed queue
\* that had a message stored, while another queue is in use
C29_Witness ==
    /\ msg_last.op = "get" /\ msg_last.rc = 2
    /\ \E i \in QueuesInUse(IpcState) :
          /\ message_queues[i].id = 2
          /\ message_queues[i].count = 0
          /\ message_queues[i].messages[0].data /= 0
    /\ QueuesInUse(IpcState) /= QueueSlots

\* C30: when msgctl(id, IPC_RMID) succeeds the slot is free, msgsnd, msgrcv
\* and msgctl on the id fail, and a msgget with the same key and IPC_CREAT
\* gives an empty queue with another id; no receive returns a message that
\* was sent to another queue id; msgctl with another command returns -1 and
\* changes nothing.
C30_RemoveFreesSlot ==
    /\ \A id \in MsgIds :
          \A q \in {find_queue(message_queues, id)} \ {NULL} :
             \A c \in {msgctl(IpcState, id, IPC_RMID)} :
                /\ c.rc = 0
                /\ c.s.mq[q].in_use = 0
                /\ c.s = [IpcState EXCEPT !.mq[q].in_use = 0]
                /\ msgsnd(c.s, id, <<[ZeroMessage EXCEPT !.type = 1]>>, 8, 0).rc = -1
                /\ \A t \in {0} \cup MsgTypes :
                      msgrcv(c.s, id, TRUE, MAX_MESSAGE_SIZE, t, 0).rc = -1
                /\ \A cmd \in Cmds : msgctl(c.s, id, cmd).rc = -1
                /\ \A g \in {msgget(c.s, message_queues[q].key, IPC_CREAT + 438)} :
                      /\ g.rc /= -1
                      /\ g.rc /= id
                      /\ \E i \in QueuesInUse(g.s) :
                            g.s.mq[i].id = g.rc /\ g.s.mq[i].count = 0
                      /\ \A t \in {0} \cup MsgTypes :
                            msgrcv(g.s, g.rc, TRUE, MAX_MESSAGE_SIZE, t, 0).rc = -1
    /\ \A k \in DOMAIN msg_rcvd :
          \E i \in DOMAIN msg_sent :
             msg_sent[i].data = msg_rcvd[k].data /\ msg_sent[i].id = msg_rcvd[k].id
    /\ \A id \in MsgIds, cmd \in Cmds \ {IPC_RMID} :
          \A c \in {msgctl(IpcState, id, cmd)} : c.rc = -1 /\ c.s = IpcState

\* a queue that had an unreceived message was removed, a queue was created
\* with the same key, and a message sent to the new queue has been received
C30_Witness ==
    /\ \E i \in DOMAIN msg_sent :
          /\ msg_sent[i].id = 1
          /\ \A k \in DOMAIN msg_rcvd : msg_rcvd[k].data /= msg_sent[i].data
          /\ find_queue(message_queues, 1) = NULL
    /\ \E q \in QueuesInUse(IpcState) :
          message_queues[q].id = 2 /\ message_queues[q].key = 1
    /\ msg_last.op = "rcv" /\ msg_last.id = 2 /\ msg_last.rc = 8

\* C31: a ring of size S holds at most S - 1 elements and ringbuf_count
\* reports how many it holds; ringbuf_push finds the ring full exactly when
\* S - 1 elements are stored and ringbuf_pop finds it empty exactly when none
\* is (the other side having published nothing since the call read its
\* index); a call that returns -1 changes neither head, tail nor the slab.
C31_HoldsAtMostSizeLessOne ==
    /\ [](rb /= NoRing =>
            /\ ringbuf_count(rb) = Len(pushed) - Len(popped)
            /\ ringbuf_count(rb) <= rb.size - 1
            /\ (p_pc = "check" /\ rb.head = p_head) =>
                  (ring_full(p_next_tail, p_head)
                     <=> Len(pushed) - Len(popped) = rb.size - 1)
            /\ (c_pc = "check" /\ rb.tail = c_tail) =>
                  (ring_empty(c_head, c_tail) <=> Len(pushed) = Len(popped)))
    /\ [][(p_pc = "check" /\ p_pc' = "idle") => (rb' = rb /\ pushed' = pushed)]_vars
    /\ [][(c_pc = "check" /\ c_pc' = "idle") => (rb' = rb /\ popped' = popped)]_vars

\* ringbuf_push has returned -1 on a ring of size 4 that holds 3 elements,
\* after elements were popped, and ringbuf_pop has returned -1 before
C31_Witness ==
    /\ rb.size = 4
    /\ p_pc = "idle" /\ p_data = Len(pushed) + 1 /\ ring_full(p_next_tail, p_head)
    /\ Len(pushed) - Len(popped) = 3
    /\ Len(popped) > 0
    /\ c_pc = "idle" /\ ring_empty(c_head, c_tail)

\* C38: ringbuf_push writes slab[tail] before it advances tail and never
\* writes head, ringbuf_pop reads slab[head] before it advances head and
\* never writes tail; so the consumer never reads a slot the producer is
\* writing or has not published, the producer never writes a slot that holds
\* an element not yet read, every element read is the one pushed, and head
\* and tail stay below the size.
C38_SlotPublishedBeforeRead ==
    /\ [](rb /= NoRing =>
            /\ rb.head < rb.size /\ rb.tail < rb.size
            /\ c_pc = "copy" =>
                  ~(p_pc \in {"copy", "publish"} /\ p_tail = c_head)
            /\ p_pc = "copy" =>
                  /\ p_tail = rb.tail
                  /\ ~(c_pc \in {"copy", "publish"} /\ c_head = p_tail)
            /\ c_pc = "publish" =>
                  /\ Len(popped) < Len(pushed)
                  /\ c_data = pushed[Len(popped) + 1])
    /\ [][rb'.tail /= rb.tail => (p_pc = "publish" /\ rb'.head = rb.head)]_vars
    /\ [][rb'.head /= rb.head => (c_pc = "publish" /\ rb'.tail = rb.tail)]_vars
    /\ [][(rb /= NoRing /\ rb'.buffer /= rb.buffer) =>
             (p_pc = "copy" /\ rb'.head = rb.head /\ rb'.tail = rb.tail)]_vars

\* the consumer has read slot 0 of a ring of size 2 for the second time
\* while the producer is inside its third call
C38_Witness ==
    /\ rb.size = 2
    /\ c_pc = "publish" /\ c_head = 0 /\ Len(popped) = 2
    /\ p_pc \in {"read_tail", "check"}
    /\ Len(pushed) = 3

\* the sizes asked of ringbuf_init, in halves: 0, 1, 2, 3, 5, 128, 129,
\* 2^31, 2^31 + 1 and 2^32 - 1
RingRequests ==
    {[hi |-> 0, lo |-> n] : n \in {0, 1, 2, 3, 5, 128, 129}}
    \cup {[hi |-> 32768, lo |-> 0], [hi |-> 32768, lo |-> 1], [hi |-> 65535, lo |-> 65535]}

\* 2 to the power k, for k below 16
RECURSIVE Pow2(_)
Pow2(k) == IF k = 0 THEN 1 ELSE 2 * Pow2(k - 1)

\* 2 to the power k in halves, for k below 32
Pow2Halves(k) ==
    IF k < 16 THEN [hi |-> 0, lo |-> Pow2(k)] ELSE [hi |-> Pow2(k - 16), lo |-> 0]

\* a < b on halves
LessHalves(a, b) == a.hi < b.hi \/ (a.hi = b.hi /\ a.lo < b.lo)

\* C32: for every 32-bit size >= 1 and element_size >= 1, with the slab
\* allocated, ringbuf_init called on an unused ring returns 0 with size the smallest power of two >=
\* the size asked, mask = size - 1 and head = tail = 0; for size 0 or
\* element_size 0 it returns -1 and does not call kmalloc.
C32_InitRoundsUpToPowerOfTwo ==
    rb = NoRing =>
    \A size \in RingRequests, element_size \in {0, 1, 8} :
       \A r \in {ringbuf_init(size, element_size, [i \in {0} |-> 0])} :
          IF (size.hi = 0 /\ size.lo = 0) \/ element_size = 0
          THEN r.returns /\ r.rc = -1 /\ ~r.allocates
          ELSE /\ r.returns
               /\ r.rc = 0
               /\ \E k \in 0 .. 31 :
                     /\ r.size = Pow2Halves(k)
                     /\ ~LessHalves(r.size, size)
                     /\ k > 0 => LessHalves(Pow2Halves(k - 1), size)
               /\ (r.mask.lo + 1) % 65536 = r.size.lo
               /\ r.mask.hi + (r.mask.lo + 1) \div 65536 = r.size.hi
               /\ r.head = 0 /\ r.tail = 0

\* the tables and results of running the calls of both tasks one after the
\* other, in either order
SerialFrom(first) ==
    Pick({
        Pick({ [s |-> b.s,
                res |-> [t \in RaceTasks |->
                           IF t = first THEN [rc |-> a.rc, out |-> a.out]
                           ELSE [rc |-> b.rc, out |-> b.out]]]
               : b \in {seq_call(a.s, race_task[CHOOSE t \in RaceTasks : t /= first])} })
        : a \in {seq_call(race_start[1], race_task[first])} })

Serial == {SerialFrom(first) : first \in RaceTasks}

\* the tables a third party may see when the calls are serialized: the one
\* before the calls, the one after one whole call, the one after both
SerialViews ==
    {race_start[1]}
    \cup {seq_call(race_start[1], race_task[t]).s :
            t \in {u \in RaceTasks : race_task[u].pc /= "idle"}}
    \cup (IF \A t \in RaceTasks : race_task[t].pc /= "idle"
          THEN {r.s : r \in Serial} ELSE {})

\* what a third party reads of a table: of every queue its head, tail and
\* count and the messages from head up to count
View(s) ==
    [q \in QueueSlots |->
       [in_use |-> s.mq[q].in_use, id |-> s.mq[q].id, head |-> s.mq[q].head,
        tail |-> s.mq[q].tail, count |-> s.mq[q].count,
        stored |-> [k \in 0 .. (s.mq[q].count - 1) |->
                      s.mq[q].messages[(s.mq[q].head + k) % MAX_QUEUE_SIZE]]]]

\* both calls have returned, and the queue, the values returned and the
\* message received are those of running the calls in some order one after
\* the other
RaceDone == \A t \in RaceTasks : race_task[t].pc = "done"

FinalIsSerial ==
    (race_start /= <<>> /\ RaceDone) =>
       \E r \in Serial :
          /\ View(IpcState) = View(r.s)
          /\ \A t \in RaceTasks :
                /\ race_task[t].rc = r.res[t].rc
                /\ race_task[t].out = r.res[t].out

\* at every moment the queue read by a third party is one a serialized run
\* shows
ViewIsSerial ==
    race_start /= <<>> => View(IpcState) \in {View(v) : v \in SerialViews}

\* C26: when two tasks call msgsnd / msgrcv on one queue and may be switched
\* between any two statements, the queue after both calls, the values
\* returned and the message received are those of running the two calls in
\* some order one after the other (no accepted message lost or overwritten),
\* and the queue seen at any moment is one a serialized run shows.
C26_SendReceiveSerialized == FinalIsSerial /\ ViewIsSerial

\* ---------------------------------------------------- ring buffer: claims
IsPrefix(a, b) == Len(a) <= Len(b) /\ \A i \in DOMAIN a : a[i] = b[i]

\* C6: with one producer and one consumer interleaved at statement
\* boundaries, the elements popped are always a prefix of the elements pushed.
C6_PoppedPrefixOfPushed == IsPrefix(popped, pushed)

\* both sides are between their check and their publish, the ring index has
\* wrapped, and elements have already come out
C6_Witness ==
    /\ p_pc = "publish" /\ c_pc = "publish"
    /\ Len(pushed) >= rb.size
    /\ Len(popped) >= 2

\* ------------------------------------- scheduler: dispatch order and kill
\* C11: a task picked from ready[p] is picked before every task that was put
\* on ready[p] after it: when an operation makes Y the current task, no task
\* of Y's priority that was enqueued before Y is still waiting, untouched by
\* block, kill or a priority change; and a Running task that a tick preempts
\* is Ready at the tail of its ready queue.
C11_FifoWithinPriority ==
    /\ \A Y \in InUse :
          (/\ Y = current_process /\ Y /= last_op.caller
           /\ ready_before[Y] > 0)
            => \A X \in InUse \ {Y} :
                  ~(/\ ready_before[X] > 0
                    /\ ready_before[X] < ready_before[Y]
                    /\ ready_since[X] = ready_before[X]
                    /\ process_table[X].priority = process_table[Y].priority)
    /\ (/\ last_op.op = "tick" /\ last_op.caller_state = PROCESS_RUNNING
        /\ current_process /= last_op.caller)
         => /\ State(last_op.caller) = PROCESS_READY
            /\ ready_queues[process_table[last_op.caller].priority].tail =
                  last_op.caller

\* the ready queues that have a task linked in
NonEmptyReady == {qi \in Priorities : Linked(qi) /= {}}

\* C13: in every reachable state scheduler_pick_next returns the head of the
\* first ready queue, from Realtime to Idle, that has a task linked in; no
\* other Ready task has a lower priority value than the task returned; and
\* the idle task is returned exactly when all five ready queues are empty.
C13_PickNextFirstNonEmpty ==
    LET next == scheduler_pick_next(SchedState).next
    IN /\ NonEmptyReady /= {} =>
             LET first == CHOOSE qi \in NonEmptyReady :
                             \A qj \in NonEmptyReady : qi <= qj
             IN /\ next = ready_queues[first].head
                /\ \A p \in InUse \ {next} :
                      State(p) = PROCESS_READY =>
                         process_table[next].priority <= process_table[p].priority
       /\ (next = idle_process) <=> (NonEmptyReady = {})

\* C14: the idle task is linked into no ready queue.
C14_IdleNeverQueued ==
    \A qi \in Priorities : idle_process \notin Linked(qi)

\* the tasks reachable from the child list starting at c through children and
\* sibling_next links
RECURSIVE Family(_, _, _)
Family(pt, c, seen) ==
    IF c = NULL \/ c \in seen THEN seen
    ELSE Family(pt, pt[c].sibling_next, Family(pt, pt[c].children, seen \cup {c}))

Descendants(pt, p) == Family(pt, pt[p].children, {})

\* C15: after process_kill on the pid of an existing task has returned 0, that
\* task and every task reachable from it through children links is
\* Terminated; process_kill on a pid that no task in the table has returns -1
\* and leaves every task and queue as it was.
C15_KillTerminatesDescendants ==
    /\ (last_op.op = "kill" /\ last_op.rc = 0) =>
          /\ State(last_op.p) = PROCESS_TERMINATED
          /\ \A q \in Descendants(process_table, last_op.p) :
                State(q) = PROCESS_TERMINATED
    /\ \A pid \in 1 .. MAX_PROCESSES :
          (\A p \in InUse : process_table[p].pid /= pid) =>
             process_kill(SchedState, pid, SIGKILL) = [rc |-> -1, s |-> SchedState]

\* C16: after process_destroy(p) has returned, every task reachable from p
\* through children and sibling links (children, their children, and so on)
\* is Terminated.
C16_DestroyTerminatesDescendants ==
    last_op.op = "destroy" =>
       \A q \in Descendants(process_table, last_op.p) :
          State(q) = PROCESS_TERMINATED

\* C17: no two used process-table slots hold the same pid, and only the idle
\* task has pid 0.
C17_PidsUnique ==
    /\ \A p, q \in InUse : p /= q => process_table[p].pid /= process_table[q].pid
    /\ \A p \in InUse \ {idle_process} : process_table[p].pid /= IDLE_PROCESS_PID

\* ------------------------------------------------- scheduler: round robin
\* the ticks numbered from .. to that were charged to task p
Charged(p, from, to) ==
    Cardinality({j \in from .. to : tick_log[j].charged = p})

\* the same N tasks, all of one priority, were the Ready or Running tasks at
\* every tick numbered from .. to
SameClass(S, from, to) ==
    /\ S /= {}
    /\ to <= Len(tick_log)
    /\ \A j \in from .. to : tick_log[j].runnable = S
    /\ \A p, q \in S : process_table[p].priority = process_table[q].priority

\* C12: when only ticks arrive and the same N tasks of one priority, each with
\* slice T, are the Ready or Running tasks throughout, every window of N*T
\* consecutive ticks charges each of them T ticks give or take one slice (and
\* never less than T - 1, the one tick the idle task may be charged before
\* it is preempted), and after 2*N*T ticks from the start each has
\* accumulated 2*T give or take T.
C12_RoundRobinShare ==
    /\ \A i \in 1 .. Len(tick_log) :
          LET S == tick_log[i].runnable
              to == i + Cardinality(S) * DEFAULT_TIME_SLICE - 1
          IN SameClass(S, i, to) =>
                \A p \in S :
                   /\ Charged(p, i, to) >= DEFAULT_TIME_SLICE - DEFAULT_TIME_SLICE
                   /\ Charged(p, i, to) <= DEFAULT_TIME_SLICE + DEFAULT_TIME_SLICE
                   /\ Charged(p, i, to) >= DEFAULT_TIME_SLICE - 1
    /\ Len(tick_log) > 0 =>
          LET S == tick_log[1].runnable
              n == 2 * Cardinality(S) * DEFAULT_TIME_SLICE
          IN (Len(tick_log) = n /\ SameClass(S, 1, n)) =>
                \A p \in S :
                   /\ process_table[p].cpu_time >= DEFAULT_TIME_SLICE
                   /\ process_table[p].cpu_time <= 3 * DEFAULT_TIME_SLICE

\* three tasks of one priority have shared a window of 3*T ticks, and the
\* first of them has been preempted and has come round again
C12_Witness ==
    \E i \in 1 .. Len(tick_log) :
       LET S == tick_log[i].runnable
           to == i + Cardinality(S) * DEFAULT_TIME_SLICE - 1
       IN /\ Cardinality(S) = 3
          /\ SameClass(S, i, to)
          /\ \A p \in S : Charged(p, i, to) > 0
          /\ tick_log[i].charged \in S
          /\ tick_log[to].charged = tick_log[i].charged

\* ------------------------------------------------ the current-task pointer
\* the operations that do not go through the switch of scheduler_yield or
\* scheduler_preempt: create, start, unblock, set-priority, destroy, and
\* block, exit or kill of a task other than the caller
OutsideSwitch(op, old) ==
    \/ op.op \in {"create", "ready", "unblock", "setprio", "destroy"}
    \/ op.op \in {"block", "exit", "kill"} /\ op.p /= old

\* C33: current_process changes only in the switch of scheduler_yield and
\* scheduler_preempt: every operation outside it (create, unblock,
\* set-priority, destroy, block or kill of another task, the allocator and the
\* IPC calls) leaves it as it is, and every change comes with one more
\* context switch in proc_stats and in both tasks and with the new task's
\* last_run_time set to the clock.
C33_CurrentChangesOnlyInSwitch ==
    [][/\ OutsideSwitch(last_op', current_process)
          => current_process' = current_process
       /\ current_process' /= current_process =>
             /\ proc_stats'.context_switches = proc_stats.context_switches + 1
             /\ process_table'[current_process].context_switches =
                   process_table[current_process].context_switches + 1
             /\ process_table'[current_process'].context_switches =
                   process_table[current_process'].context_switches + 1
             /\ process_table'[current_process'].last_run_time = system_time_ms]_vars

\* ------------------------------------------------------ blocking a task
\* the tasks of queue qi of s from p on, following next links; fuel bounds
\* the walk by the size of the table
RECURSIVE ListFrom(_, _, _)
ListFrom(s, p, fuel) ==
    IF p = NULL \/ fuel = 0 THEN <<>>
    ELSE <<p>> \o ListFrom(s, s.pt[p].next, fuel - 1)

ListOf(s, qi) == ListFrom(s, GetQ(s, qi).head, MAX_PROCESSES)

\* the sequence L without the task p
RECURSIVE Except(_, _)
Except(L, p) ==
    IF L = <<>> THEN <<>>
    ELSE IF Head(L) = p THEN Except(Tail(L), p)
    ELSE <<Head(L)>> \o Except(Tail(L), p)

\* the tasks process_block is called on
Blockable ==
    {p \in Tasks : process_table[p].state \in {PROCESS_READY, PROCESS_RUNNING}}

\* C34: process_block(p) makes p Blocked and the last task of the blocked
\* queue, switches another task in when p was running, and when p was not
\* running leaves every ready queue as it was but for p: the same tasks in
\* the same order, the same head and tail unless that was p, and the same
\* count less one where p was linked.
C34_BlockAffectsOnlyThatTask ==
    \A p \in Blockable :
       \A s \in {process_block(SchedState, p)} :
          /\ s.pt[p].state = PROCESS_BLOCKED
          /\ s.bq.tail = p
          /\ ListOf(s, QBLOCKED) = Append(ListOf(SchedState, QBLOCKED), p)
          /\ p = current_process => s.cur /= p
          /\ p /= current_process =>
                \A qi \in Priorities :
                   LET before == ListOf(SchedState, qi)
                   IN /\ ListOf(s, qi) = Except(before, p)
                      /\ s.rq[qi].count =
                            ready_queues[qi].count - (Len(before) - Len(Except(before, p)))
                      /\ ready_queues[qi].head /= p
                            => s.rq[qi].head = ready_queues[qi].head
                      /\ ready_queues[qi].tail /= p
                            => s.rq[qi].tail = ready_queues[qi].tail

\* ------------------------------------------------------- the timer tick
\* the scheduler's globals with the running task's policy field set to
\* policy, as the task's owner may set it
WithPolicy(policy) ==
    IF current_process = NULL THEN SchedState
    ELSE [SchedState EXCEPT !.pt[current_process].policy = policy]

\* C35: scheduler_tick adds one to the running task's cpu_time, takes one off
\* remaining_slice when the policy is round-robin and the slice is above 0,
\* and then calls scheduler_preempt exactly when a ready queue of strictly
\* higher priority holds a task or the policy is round-robin and the slice is
\* 0; so a FIFO task is preempted neither by its slice nor by a Ready task of
\* equal or lower priority.
C35_TickPreemptsExactlyWhenDue ==
    current_process /= NULL =>
       \A policy \in {SCHED_FIFO, SCHED_RR} :
          \A s0 \in {WithPolicy(policy)} :
             LET c == s0.cur
                 slice == IF policy = SCHED_RR /\ s0.pt[c].remaining_slice > 0
                          THEN s0.pt[c].remaining_slice - 1
                          ELSE s0.pt[c].remaining_slice
                 charged == [s0 EXCEPT !.pt[c].cpu_time = @ + 1,
                                       !.pt[c].remaining_slice = slice]
                 due == \/ \E qi \in Priorities :
                              qi < s0.pt[c].priority /\ ListOf(s0, qi) /= <<>>
                        \/ policy = SCHED_RR /\ slice = 0
             IN scheduler_tick(s0) = IF due THEN scheduler_preempt(charged)
                                     ELSE charged

\* --------------------------------------------- unblocking and the slice
\* task p was made Ready in the step: it was not Ready and is now, or it was
\* the running task of a yield or of a tick that preempted, which put it
\* back on its queue before picking
EnteredReady(p) ==
    \/ /\ process_table[p].state /= PROCESS_READY
       /\ process_table'[p].state = PROCESS_READY
    \/ /\ p = current_process
       /\ process_table[p].state = PROCESS_RUNNING
       /\ \/ last_op'.op = "yield"
          \/ /\ last_op'.op = "tick"
             /\ proc_stats'.context_switches /= proc_stats.context_switches

\* C37: process_unblock takes a Blocked task off the blocked queue and puts
\* it, Ready, at the tail of ready[priority], and changes nothing for a task
\* that is not Blocked; a round-robin task's remaining_slice is set to
\* time_slice exactly when the task is made Ready, is otherwise changed only
\* by the decrement of the tick, and is never below 0.
C37_UnblockAndSliceReset ==
    /\ [](\A p \in Tasks :
             \A s \in {process_unblock(SchedState, p)} :
                IF process_table[p].state = PROCESS_BLOCKED
                THEN /\ s.pt[p].state = PROCESS_READY
                     /\ ListOf(s, QBLOCKED) = Except(ListOf(SchedState, QBLOCKED), p)
                     /\ ListOf(s, s.pt[p].priority) =
                           Append(ListOf(SchedState, s.pt[p].priority), p)
                     /\ s.rq[s.pt[p].priority].tail = p
                ELSE s = SchedState)
    /\ [][\A p \in Slots :
             (/\ process_table_used[p] /\ process_table_used'[p]
              /\ ~(last_op'.op = "create" /\ last_op'.p = p)
              /\ process_table[p].policy = SCHED_RR) =>
                LET before == process_table[p].remaining_slice
                    after == process_table'[p].remaining_slice
                IN /\ after >= 0
                   /\ EnteredReady(p) => after = process_table[p].time_slice
                   /\ after /= before =>
                         \/ EnteredReady(p)
                         \/ /\ last_op'.op = "tick" /\ p = current_process
                            /\ before > 0 /\ after = before - 1]_vars

\* ------------------------------------------------- waiting for a child
\* no system call and no tick takes a Blocked task to any state but
\* Terminated: process_unblock has no caller.  Holds in SpecWait, so a
\* waiting parent stays Blocked however many ticks follow.
BlockedStaysBlocked ==
    [][\A p \in Slots :
          (/\ process_table_used[p] /\ process_table_used'[p]
           /\ process_table[p].state = PROCESS_BLOCKED)
             => process_table'[p].state \in {PROCESS_BLOCKED, PROCESS_TERMINATED}]_vars

====
